---------------------------- MODULE Spec2Model ----------------------------
(***************************************************************************)
(* Model of the protocol core of the MCP-style RPC system:                 *)
(*   server/auth_provider.py  AuthProvider                                 *)
(*   server/server.py         DistributedServer                            *)
(*                                                                         *)
(*   client/client.py         CircuitBreaker, DistributedClient            *)
(*   client/multi_client.py   MultiServerClient.generate_agenda            *)
(*   server/sqlite_todo_service.py, server/db_manager.py                   *)
(*                            SQLiteTodoService and its tasks table        *)
(*   server/todo_server.py, server/weather_server.py,                      *)
(*   server/calendar_server.py                                             *)
(*                            InvokeMethod of the three service servers    *)
(*   server/function_handlers.py                                           *)
(*                            DistributedFunctions.acquire_lock,           *)
(*                            release_lock                                 *)
(*                                                                         *)
(* Several specifications are defined over the same variables; each moves  *)
(* the variables of one component and leaves the others as Init set them:  *)
(*   SpecAuth      the three decision functions of AuthProvider, applied   *)
(*                 to inputs drawn from bounded sets, with the clock       *)
(*                 ticking;                                                *)
(*   Spec          the dispatch server: register_method, InvokeMethod and  *)
(*                 the registration and end of event subscriptions.  The   *)
(*                 clock stands still; request timestamps are offsets      *)
(*                 from it;                                                *)
(*   SpecDiscover  the registries and DiscoverCapabilities;                *)
(*   SpecPattern   _pattern_matches of the server and of the client,       *)
(*                 applied to strings drawn from bounded sets;             *)
(*   SpecBroadcast event streams and broadcast_event, step by step, with   *)
(*                 the SubscribeToEvents handlers running beside it;       *)
(*   SpecBreaker   one CircuitBreaker called by two threads;               *)
(*   SpecClient    one DistributedClient: invoke_method, with its breaker  *)
(*                 and its reconnections;                                  *)
(*   SpecSubscribe subscribe_to_events called by two threads, step by     *)
(*                 step, and the listener threads they start;              *)
(*   SpecListener  the listener threads with the events they deliver, and  *)
(*                 one thread calling subscribe_to_events beside them;     *)
(*   SpecFleet     several DistributedClient objects, each with the        *)
(*                 CircuitBreaker it created;                              *)
(*   SpecRace      reconnect() and connect() statement by statement, run   *)
(*                 by the listener and by a foreground call at once;       *)
(*   SpecConnect   connect() and reconnect() called directly, reconnect()  *)
(*                 attempt by attempt; SpecConnectFair adds that a call    *)
(*                 in progress goes on;                                    *)
(*   SpecTodo      add_task and get_tasks of SQLiteTodoService on one      *)
(*                 tasks table, with parameters drawn from bounded sets;   *)
(*   SpecAgenda    generate_agenda, applied to every combination of        *)
(*                 configured servers and fates of its sub-calls;          *)
(*   SpecServices  InvokeMethod of the todo, weather and calendar servers, *)
(*                 the todo server writing its tasks table;                *)
(*   SpecBackoff   the waits of reconnect(), attempt by attempt, in        *)
(*                 hundredths of a second;                                 *)
(*   SpecClose     close() called once by the owner of a client whose      *)
(*                 listener threads go on running;                         *)
(*   SpecLocks     acquire_lock and release_lock served by two pool        *)
(*                 threads, statement by statement, with the clock         *)
(*                 passing in units of the 0.2 s sleep.                    *)
(*                                                                         *)
(* Python values are modelled as follows.  A str is a TLA+ string.  A list *)
(* of str is a sequence.  Optional results are records [some, val].        *)
(* HMAC-SHA256(key, message).hexdigest() is modelled as an ideal keyed     *)
(* hash: an injective function of (key, message) into strings.             *)
(***************************************************************************)
EXTENDS Integers, Sequences, FiniteSets, TLC

VARIABLES
    now,                \* int(time.time()) as read by the server
    methods,            \* DistributedServer.methods
    event_subscribers,  \* DistributedServer.event_subscribers
    auth_call,          \* the last call made on the AuthProvider, with its result
    request,            \* the last MethodRequest handed to InvokeMethod
    response,           \* what InvokeMethod returned for it
    handler_call,       \* the handler invocation made while serving it
    resources,          \* DistributedServer.resources
    discovery,          \* the last DiscoverCapabilities call, with its result
    pattern_call,       \* the last call of the two _pattern_matches
    streams,            \* the SubscribeToEvents RPCs made so far: one context each
    broadcast,          \* the broadcast_event call in progress, or the last one
    client_time,        \* time.time() as read by the client
    circuit_breaker,    \* the CircuitBreaker of one DistributedClient
    callers,            \* the threads calling CircuitBreaker.execute directly
    consecutive_failures, \* failed calls of those threads since the last success
    connected,          \* DistributedClient.connected
    invocation,         \* the last invoke_method call: what it did on the network
    connection,         \* the last connect() or reconnect() call made directly
    event_handlers,     \* DistributedClient.event_handlers: its keys, in dict order
    event_listener_thread, \* DistributedClient.event_listener_thread: 0 is None
    listeners,          \* the threads started on _event_listener_loop
    subscribers,        \* the threads calling subscribe_to_events
    breakers,           \* the CircuitBreaker objects created so far
    connectors,         \* the DistributedClient objects created so far
    last_call,          \* the last invoke_method call made on one of them
    channels,           \* the channels created by connect(): what their health check gave
    stub,               \* DistributedClient.stub: the channel it is bound to, 0 is None
    reconnecting,       \* the listener and a foreground call, each inside reconnect() or not
    todo_tasks,         \* the rows of the tasks table, in rowid order
    todo_added,         \* the parameters of the add_task calls that stored a row, in order
    todo_call,          \* the last call made on the SQLiteTodoService, with its result
    agenda_call,        \* the last generate_agenda call, with its sub-calls and result
    service_call,       \* the last InvokeMethod served by a service server
    backoff_walk,       \* the failed attempts of one reconnect(), with their waits
    closed,             \* close() has returned on the connector
    locks,              \* DistributedFunctions.locks
    lockers,            \* the threads running acquire_lock and release_lock
    lock_clock          \* time.time() as read by DistributedFunctions

discoverVars == <<resources, discovery, pattern_call>>

streamVars == <<streams, broadcast>>

breakerVars == <<client_time, circuit_breaker, callers, consecutive_failures>>

fleetVars == <<breakers, connectors, last_call>>

raceVars == <<channels, stub, reconnecting>>

todoVars == <<todo_tasks, todo_added, todo_call>>

lockVars == <<locks, lockers, lock_clock>>

laterVars == <<service_call, backoff_walk, closed, lockVars>>

serviceVars == <<todoVars, agenda_call, laterVars>>

\* What the one connector followed in detail leaves alone
restVars == <<fleetVars, raceVars, serviceVars>>

listenerVars == <<event_handlers, event_listener_thread, listeners, subscribers>>

\* What connect(), reconnect() and invoke_method leave alone
besideVars == <<listenerVars, restVars>>

connectorVars == <<connected, invocation, connection, besideVars>>

clientVars == <<breakerVars, connectorVars>>

vars == <<now, methods, event_subscribers, auth_call, request, response, handler_call,
          discoverVars, streamVars, clientVars>>

(***************************************************************************)
(* Bounds of the model.                                                    *)
(***************************************************************************)
StartTime == 1000
MaxTicks == 1

(***************************************************************************)
(* Python helpers.                                                         *)
(***************************************************************************)
Range(s) == {s[i] : i \in DOMAIN s}

Abs(x) == IF x < 0 THEN -x ELSE x

Some(v) == [some |-> TRUE, val |-> v]

\* Python's None, for a value that is otherwise a list of str.
None == [some |-> FALSE, val |-> <<>>]

\* Python's None passed where a str is expected (an absent api_key).
PyNoneStr == "<None>"

\* bool(s) of a str-or-None value: None and "" are falsy.
Truthy(s) == s # PyNoneStr /\ s # ""

(***************************************************************************)
(* AuthProvider.__init__: the registered clients.                          *)
(***************************************************************************)
api_keys ==
    [client1 |-> [key |-> "sk_client1_12345abcde",
                  permissions |-> <<"read", "write", "subscribe">>],
     client2 |-> [key |-> "sk_client2_67890fghij",
                  permissions |-> <<"read">>]]

Registered(client_id) == client_id \in DOMAIN api_keys

DevPermissions == <<"read", "write", "subscribe">>

\* The freshness window of validate_signature, in seconds.
ReplayWindow == 300

(***************************************************************************)
(* hmac.new(key, message, sha256).hexdigest(): an ideal keyed hash.  Keys  *)
(* and messages of the model contain no "|", so the function is injective. *)
(***************************************************************************)
HmacSha256Hex(key, message) == "hmac(" \o key \o "|" \o message \o ")"

\* f"{method_id}:{client_id}:{timestamp}"
SignedMessage(method_id, client_id, timestamp) ==
    method_id \o ":" \o client_id \o ":" \o ToString(timestamp)

\* str.isascii(): the only non-ASCII signatures of the model.
NonAsciiSignatures == {"sig<U+00E9>"}

IsAscii(s) == s \notin NonAsciiSignatures

\* A variant of authenticate that grants a matching key the default
\* permission list instead of the client's own.
authenticate_default_permissions(client_id, api_key) ==
    IF ~Truthy(api_key) \/ api_key = ""
    THEN Some(DevPermissions)
    ELSE IF Registered(client_id) /\ api_keys[client_id].key = api_key
         THEN Some(DevPermissions)
         ELSE None

(***************************************************************************)
(* AuthProvider.authenticate                                               *)
(***************************************************************************)
authenticate(client_id, api_key) ==
    IF ~Truthy(api_key) \/ api_key = ""
    THEN Some(DevPermissions)
    ELSE IF Registered(client_id) /\ api_keys[client_id].key = api_key
         THEN Some(api_keys[client_id].permissions)
         ELSE None

(***************************************************************************)
(* AuthProvider.validate_signature.  hmac.compare_digest raises TypeError  *)
(* on a str with non-ASCII characters; the bypass of line 42 returns       *)
(* before the comparison.                                                  *)
(***************************************************************************)
validate_signature_raises(client_id, method_id, timestamp, signature) ==
    /\ ~(signature = "" \/ ~Registered(client_id))
    /\ ~IsAscii(signature)

validate_signature(client_id, method_id, timestamp, signature, current_time) ==
    IF signature = "" \/ ~Registered(client_id)
    THEN TRUE
    ELSE LET api_key == api_keys[client_id].key
             message == SignedMessage(method_id, client_id, timestamp)
             expected_signature == HmacSha256Hex(api_key, message)
             valid == (signature = expected_signature)
             timestamp_valid == Abs(current_time - timestamp) < ReplayWindow
         IN  valid /\ timestamp_valid

\* A variant of has_permission that tests for any permission at all.
has_permission_any(client_id, required_permission) ==
    IF ~Registered(client_id)
    THEN TRUE
    ELSE api_keys[client_id].permissions # <<>>

(***************************************************************************)
(* AuthProvider.has_permission                                             *)
(***************************************************************************)
has_permission(client_id, required_permission) ==
    IF ~Registered(client_id)
    THEN TRUE
    ELSE required_permission \in Range(api_keys[client_id].permissions)

(***************************************************************************)
(* Inputs of the AuthProvider calls.                                       *)
(***************************************************************************)
ClientIds == {"client1", "client2", "ghost"}

RegisteredKeys == {api_keys[c].key : c \in DOMAIN api_keys}

ApiKeys == RegisteredKeys \cup {"", PyNoneStr, "sk_wrong"}

Permissions == {"read", "write", "subscribe", "admin"}

SignedMethodIds == {"echo", "multiply"}

\* Request timestamps, as offsets from the server's clock.
TimestampOffsets ==
    {-(ReplayWindow + 1), -ReplayWindow, -(ReplayWindow - 1), 0,
     ReplayWindow - 1, ReplayWindow, ReplayWindow + 1}

\* DistributedClient._create_signature with the key the client holds.
create_signature(api_key, client_id, method_id, timestamp) ==
    HmacSha256Hex(api_key, SignedMessage(method_id, client_id, timestamp))

\* A digest that differs from the HMAC of (key, message) in one byte.
TamperedHex(key, message) == "hmad(" \o key \o "|" \o message \o ")"

\* The signatures a caller may present for (client_id, method_id, timestamp):
\* none, one made with any key for this or another method or for the
\* server's current second, a digest off by one byte, a non-ASCII string.
Signatures(client_id, method_id, timestamp) ==
    {""}
    \cup {create_signature(k, client_id, m, t) :
             k \in RegisteredKeys \cup {""}, m \in SignedMethodIds,
             t \in {timestamp, now}}
    \cup {TamperedHex(k, SignedMessage(method_id, client_id, timestamp)) :
             k \in RegisteredKeys}
    \cup NonAsciiSignatures

NoAuthCall ==
    [op |-> "none", client_id |-> "", api_key |-> "", method_id |-> "",
     timestamp |-> 0, signature |-> "", required_permission |-> "",
     current_time |-> 0, permissions |-> None, result |-> FALSE,
     raised |-> FALSE]

(***************************************************************************)
(* Actions of SpecAuth: one call of a decision function, or a clock tick.  *)
(***************************************************************************)
ServerUnchanged ==
    UNCHANGED <<methods, event_subscribers, request, response, handler_call, discoverVars, clientVars,
                streamVars>>

Tick ==
    /\ now < StartTime + MaxTicks
    /\ now' = now + 1
    /\ UNCHANGED <<methods, event_subscribers, auth_call, request, response, handler_call>>
    /\ UNCHANGED <<discoverVars, clientVars, streamVars>>

CallAuthenticate ==
    \E client_id \in ClientIds, api_key \in ApiKeys :
        /\ auth_call' = [NoAuthCall EXCEPT
                            !.op = "authenticate",
                            !.client_id = client_id,
                            !.api_key = api_key,
                            !.permissions = authenticate(client_id, api_key)]
        /\ UNCHANGED now
        /\ ServerUnchanged

CallValidateSignature ==
    \E client_id \in ClientIds, method_id \in SignedMethodIds,
       offset \in TimestampOffsets :
        \E signature \in Signatures(client_id, method_id, now + offset) :
            \E raises \in {validate_signature_raises(client_id, method_id,
                                                     now + offset, signature)} :
                /\ auth_call' = [NoAuthCall EXCEPT
                                    !.op = "validate_signature",
                                    !.client_id = client_id,
                                    !.method_id = method_id,
                                    !.timestamp = now + offset,
                                    !.signature = signature,
                                    !.current_time = now,
                                    !.raised = raises,
                                    !.result = IF raises THEN FALSE
                                               ELSE validate_signature(client_id, method_id,
                                                        now + offset, signature, now)]
                /\ UNCHANGED now
                /\ ServerUnchanged

CallHasPermission ==
    \E client_id \in ClientIds, required_permission \in Permissions :
        /\ auth_call' = [NoAuthCall EXCEPT
                            !.op = "has_permission",
                            !.client_id = client_id,
                            !.required_permission = required_permission,
                            !.result = has_permission(client_id, required_permission)]
        /\ UNCHANGED now
        /\ ServerUnchanged

(***************************************************************************)
(* Python values carried in JSON payloads.  A scalar is an int, a float    *)
(* (with an integral value) or a str; a container is a dict or a list,     *)
(* held as a sequence of <<key, scalar>> pairs in insertion order (the key *)
(* of a list item is "").                                                  *)
(***************************************************************************)
PyInt(i) == [t |-> "int", i |-> i, s |-> ""]

PyFloat(i) == [t |-> "float", i |-> i, s |-> ""]

PyStr(s) == [t |-> "str", i |-> 0, s |-> s]

PyDict(items) == [t |-> "dict", items |-> items]

PyList(items) == [t |-> "list", items |-> items]

\* dict.get(key, default) for an int default
DictGet(d, key, default) ==
    IF \E n \in DOMAIN d.items : d.items[n][1] = key
    THEN (CHOOSE pair \in Range(d.items) : pair[1] = key)[2]
    ELSE PyInt(default)

DumpScalar(v) ==
    CASE v.t = "int" -> ToString(v.i)
      [] v.t = "float" -> ToString(v.i) \o ".0"
      [] v.t = "str" -> "\"" \o v.s \o "\""

RECURSIVE DumpItems(_, _)
DumpItems(items, is_dict) ==
    IF items = <<>> THEN ""
    ELSE LET head == Head(items)
             text == IF is_dict
                     THEN "\"" \o head[1] \o "\": " \o DumpScalar(head[2])
                     ELSE DumpScalar(head[2])
         IN  IF Len(items) = 1 THEN text
             ELSE text \o ", " \o DumpItems(Tail(items), is_dict)

\* json.dumps(value)
JsonDumps(value) ==
    IF value.t = "dict"
    THEN "{" \o DumpItems(value.items, TRUE) \o "}"
    ELSE "[" \o DumpItems(value.items, FALSE) \o "]"

\* The parameter payloads of the model: a JSON object, a JSON array (valid
\* JSON that is no dict) and bytes that are not JSON.
ObjectPayload == JsonDumps(PyDict(<< <<"a", PyInt(2)>>, <<"b", PyInt(3)>> >>))

ArrayPayload == JsonDumps(PyList(<< <<"", PyInt(1)>> >>))

MalformedPayload == "{bad"

Payloads == {ObjectPayload, ArrayPayload, MalformedPayload}

\* json.loads(parameters.decode("utf-8")) on the payloads of the model
JsonLoads(payload) ==
    CASE payload = ObjectPayload ->
            [raised |-> FALSE, message |-> "",
             value |-> PyDict(<< <<"a", PyInt(2)>>, <<"b", PyInt(3)>> >>)]
      [] payload = ArrayPayload ->
            [raised |-> FALSE, message |-> "",
             value |-> PyList(<< <<"", PyInt(1)>> >>)]
      [] OTHER ->
            [raised |-> TRUE,
             message |-> "Expecting property name enclosed in double quotes: line 1 column 2 (char 1)",
             value |-> PyList(<<>>)]

(***************************************************************************)
(* The handlers of server.py: _handle_ping, _handle_echo and the write     *)
(* method that serve() registers.  A handler returns or raises.            *)
(***************************************************************************)
Returned(value) == [raised |-> FALSE, message |-> "", value |-> value]

Raised(message) == [raised |-> TRUE, message |-> message, value |-> PyList(<<>>)]

_handle_ping(params) ==
    Returned(PyDict(<< <<"timestamp", PyFloat(now)>>, <<"status", PyStr("ok")>> >>))

_handle_echo(params) == Returned(params)

\* The "multiply" lambda of serve(), on the int payloads of the model:
\* params.get("a", 0) * params.get("b", 0); a list has no get().
multiply_handler(params) ==
    IF params.t # "dict"
    THEN Raised("'" \o params.t \o "' object has no attribute 'get'")
    ELSE Returned(PyDict(<< <<"result",
             PyInt(DictGet(params, "a", 0).i * DictGet(params, "b", 0).i)>> >>))

CallHandler(handler, params) ==
    CASE handler = "_handle_ping" -> _handle_ping(params)
      [] handler = "_handle_echo" -> _handle_echo(params)
      [] handler = "multiply" -> multiply_handler(params)

(***************************************************************************)
(* DistributedServer.InvokeMethod                                          *)
(***************************************************************************)
MethodResponse(request_id, status, result, error_message) ==
    [kind |-> "MethodResponse", request_id |-> request_id, status |-> status,
     result |-> result, error_message |-> error_message]

\* An exception left InvokeMethod: the RPC fails without a MethodResponse.
RpcException(request_id) ==
    [kind |-> "exception", request_id |-> request_id, status |-> "",
     result |-> "", error_message |-> ""]

NoHandlerCall ==
    [called |-> FALSE, method_id |-> "", client_id |-> "",
     params |-> PyList(<<>>), outcome |-> Returned(PyList(<<>>))]

\* A variant of the "try" block without its "except": the exception of the
\* handler leaves InvokeMethod.
ExecuteMethod_uncaught(req, method_info) ==
    LET decoded == JsonLoads(req.parameters)
        outcome == CallHandler(method_info.handler, decoded.value)
    IN  IF decoded.raised
        THEN [response |-> MethodResponse(req.request_id, "ERROR", "",
                               "Error executing method: " \o decoded.message),
              handler_call |-> NoHandlerCall]
        ELSE [response |->
                 IF outcome.raised
                 THEN RpcException(req.request_id)
                 ELSE MethodResponse(req.request_id, "SUCCESS",
                          JsonDumps(outcome.value), ""),
              handler_call |-> [called |-> TRUE, method_id |-> req.method_id,
                                client_id |-> req.client_id,
                                params |-> decoded.value, outcome |-> outcome]]

\* A variant of the "try" block whose "except" leaves the status of the
\* response at its default, the first value of the enum.
ExecuteMethod_default_status(req, method_info) ==
    LET decoded == JsonLoads(req.parameters)
        outcome == CallHandler(method_info.handler, decoded.value)
    IN  IF decoded.raised
        THEN [response |-> MethodResponse(req.request_id, "SUCCESS", "",
                               "Error executing method: " \o decoded.message),
              handler_call |-> NoHandlerCall]
        ELSE [response |->
                 IF outcome.raised
                 THEN MethodResponse(req.request_id, "SUCCESS", "",
                          "Error executing method: " \o outcome.message)
                 ELSE MethodResponse(req.request_id, "SUCCESS",
                          JsonDumps(outcome.value), ""),
              handler_call |-> [called |-> TRUE, method_id |-> req.method_id,
                                client_id |-> req.client_id,
                                params |-> decoded.value, outcome |-> outcome]]

\* The "try" block of InvokeMethod: decode, run the handler, encode.
ExecuteMethod(req, method_info) ==
    LET decoded == JsonLoads(req.parameters)
        outcome == CallHandler(method_info.handler, decoded.value)
    IN  IF decoded.raised
        THEN [response |-> MethodResponse(req.request_id, "ERROR", "",
                               "Error executing method: " \o decoded.message),
              handler_call |-> NoHandlerCall]
        ELSE [response |->
                 IF outcome.raised
                 THEN MethodResponse(req.request_id, "ERROR", "",
                          "Error executing method: " \o outcome.message)
                 ELSE MethodResponse(req.request_id, "SUCCESS",
                          JsonDumps(outcome.value), ""),
              handler_call |-> [called |-> TRUE, method_id |-> req.method_id,
                                client_id |-> req.client_id,
                                params |-> decoded.value, outcome |-> outcome]]

Served(resp) == [response |-> resp, handler_call |-> NoHandlerCall]

\* A variant of InvokeMethod that looks the method up before it authenticates.
Dispatch_lookup_first(req) ==
    IF req.method_id \notin DOMAIN methods
    THEN Served(MethodResponse(req.request_id, "NOT_FOUND", "",
                    "Method " \o req.method_id \o " not found"))
    ELSE IF ~authenticate(req.client_id, req.api_key).some
    THEN Served(MethodResponse(req.request_id, "UNAUTHORIZED", "",
                    "Authentication failed"))
    ELSE IF validate_signature_raises(req.client_id, req.method_id,
                                      req.timestamp, req.signature)
    THEN Served(RpcException(req.request_id))
    ELSE IF ~validate_signature(req.client_id, req.method_id,
                                req.timestamp, req.signature, now)
    THEN Served(MethodResponse(req.request_id, "UNAUTHORIZED", "",
                    "Invalid request signature"))
    ELSE IF ~has_permission(req.client_id, methods[req.method_id].required_permission)
    THEN Served(MethodResponse(req.request_id, "UNAUTHORIZED", "",
                    "Permission denied: "
                    \o methods[req.method_id].required_permission \o " required"))
    ELSE ExecuteMethod(req, methods[req.method_id])

\* A variant of InvokeMethod that decodes the parameters before anything
\* else and answers ERROR when they do not decode.
Dispatch_decode_first(req) ==
    IF JsonLoads(req.parameters).raised
    THEN Served(MethodResponse(req.request_id, "ERROR", "",
                    "Error executing method: " \o JsonLoads(req.parameters).message))
    ELSE Dispatch_lookup_first(req)

\* InvokeMethod: the gates in the order of the code, then the "try" block
Dispatch(req) ==
    IF ~authenticate(req.client_id, req.api_key).some
    THEN Served(MethodResponse(req.request_id, "UNAUTHORIZED", "",
                    "Authentication failed"))
    ELSE IF validate_signature_raises(req.client_id, req.method_id,
                                      req.timestamp, req.signature)
    THEN Served(RpcException(req.request_id))
    ELSE IF ~validate_signature(req.client_id, req.method_id,
                                req.timestamp, req.signature, now)
    THEN Served(MethodResponse(req.request_id, "UNAUTHORIZED", "",
                    "Invalid request signature"))
    ELSE IF req.method_id \notin DOMAIN methods
    THEN Served(MethodResponse(req.request_id, "NOT_FOUND", "",
                    "Method " \o req.method_id \o " not found"))
    ELSE IF ~has_permission(req.client_id, methods[req.method_id].required_permission)
    THEN Served(MethodResponse(req.request_id, "UNAUTHORIZED", "",
                    "Permission denied: "
                    \o methods[req.method_id].required_permission \o " required"))
    ELSE ExecuteMethod(req, methods[req.method_id])

(***************************************************************************)
(* Inputs of the server's operations.                                      *)
(***************************************************************************)
\* serve(): the write method registered on top of the built-in methods.
Registrations ==
    {[method_id |-> "multiply", handler |-> "multiply", required_permission |-> "write"]}

RequestMethodIds == {"ping", "echo", "multiply", "nonexistent"}

RequestKeys == RegisteredKeys \cup {""}

RequestOffsets == {0, ReplayWindow + 1}

RequestIds == {"req-1"}

\* What a caller may put in the signature field of a request.
RequestSignatures(req) ==
    {"",
     create_signature(req.api_key, req.client_id, req.method_id, req.timestamp),
     TamperedHex(req.api_key, SignedMessage(req.method_id, req.client_id, req.timestamp))}
    \cup NonAsciiSignatures

NoRequest ==
    [method_id |-> "", parameters |-> "", request_id |-> "", client_id |-> "",
     api_key |-> "", timestamp |-> 0, signature |-> ""]

NoResponse ==
    [kind |-> "none", request_id |-> "", status |-> "", result |-> "",
     error_message |-> ""]

(***************************************************************************)
(* Actions of the server.                                                  *)
(***************************************************************************)
\* DistributedServer.register_method
register_method ==
    \E r \in Registrations :
        /\ methods' = [m \in DOMAIN methods \cup {r.method_id} |->
                          IF m = r.method_id
                          THEN [handler |-> r.handler,
                                required_permission |-> r.required_permission]
                          ELSE methods[m]]
        /\ UNCHANGED <<now, event_subscribers, auth_call, request, response, handler_call>>
        /\ UNCHANGED <<discoverVars, clientVars, streamVars>>

InvokeMethod ==
    \E method_id \in RequestMethodIds, parameters \in Payloads,
       request_id \in RequestIds, client_id \in ClientIds,
       api_key \in RequestKeys, offset \in RequestOffsets :
        \E unsigned \in {[NoRequest EXCEPT
                            !.method_id = method_id, !.parameters = parameters,
                            !.request_id = request_id, !.client_id = client_id,
                            !.api_key = api_key, !.timestamp = now + offset]} :
            \E signature \in RequestSignatures(unsigned) :
                \E served \in {Dispatch([unsigned EXCEPT !.signature = signature])} :
                    /\ request' = [unsigned EXCEPT !.signature = signature]
                    /\ response' = served.response
                    /\ handler_call' = served.handler_call
                    /\ UNCHANGED <<now, methods, event_subscribers, auth_call>>
                    /\ UNCHANGED <<discoverVars, clientVars, streamVars>>

\* DistributedServer.SubscribeToEvents up to the registration of the
\* subscription; the RPC then blocks for as long as the stream is active.
SubscriptionIds == {"sub-1"}

SubscriberIds == {"client1", "client2"}

SubscribeToEvents ==
    \E client_id \in SubscriberIds, api_key \in RequestKeys,
       pattern \in {"*"}, subscription_id \in SubscriptionIds :
        /\ authenticate(client_id, api_key).some
        /\ has_permission(client_id, "subscribe")
        /\ event_subscribers' =
              [s \in DOMAIN event_subscribers \cup {subscription_id} |->
                  IF s = subscription_id
                  THEN [client_id |-> client_id, pattern |-> pattern]
                  ELSE event_subscribers[s]]
        /\ UNCHANGED <<now, methods, auth_call, request, response, handler_call>>
        /\ UNCHANGED <<discoverVars, clientVars, streamVars>>

\* The "finally" of SubscribeToEvents, run when the stream is no longer active.
SubscriptionEnded ==
    \E subscription_id \in DOMAIN event_subscribers :
        /\ event_subscribers' =
              [s \in DOMAIN event_subscribers \ {subscription_id} |-> event_subscribers[s]]
        /\ UNCHANGED <<now, methods, auth_call, request, response, handler_call>>
        /\ UNCHANGED <<discoverVars, clientVars, streamVars>>

(***************************************************************************)
(* DistributedServer.register_resource and DiscoverCapabilities.           *)
(***************************************************************************)
\* The resources registered in the model: one that needs "read" and one
\* that needs a permission no registered client holds.
ResourceRegistrations ==
    {[resource_id |-> "config", required_permission |-> "read"],
     [resource_id |-> "secrets", required_permission |-> "admin"]}

DiscoveryKeys == RequestKeys \cup {"sk_wrong"}

\* pb2.CapabilitiesResponse.Capability
Capability(id, type, required_permission) ==
    [id |-> id, name |-> id,
     description |-> (IF type = "METHOD" THEN "Method: " ELSE "Resource: ") \o id,
     type |-> type, required_permission |-> required_permission]

NoDiscovery ==
    [called |-> FALSE, client_id |-> "", api_key |-> "", aborted |-> FALSE,
     capabilities |-> {}]

\* The body of DiscoverCapabilities: context.abort raises, so nothing is
\* returned to a caller that authenticate refuses.  The capabilities are
\* held as a set; the code lists methods, then resources.
Discover(client_id, api_key) ==
    IF ~authenticate(client_id, api_key).some
    THEN [NoDiscovery EXCEPT !.called = TRUE, !.client_id = client_id,
                             !.api_key = api_key, !.aborted = TRUE]
    ELSE [NoDiscovery EXCEPT
            !.called = TRUE, !.client_id = client_id, !.api_key = api_key,
            !.capabilities =
                {Capability(m, "METHOD", methods[m].required_permission) :
                    m \in {x \in DOMAIN methods :
                              has_permission(client_id, methods[x].required_permission)}}
                \cup
                {Capability(r, "RESOURCE", resources[r].required_permission) :
                    r \in {x \in DOMAIN resources :
                              has_permission(client_id, resources[x].required_permission)}}]

register_resource ==
    \E r \in ResourceRegistrations :
        /\ resources' = [x \in DOMAIN resources \cup {r.resource_id} |->
                            IF x = r.resource_id
                            THEN [data |-> r.resource_id,
                                  required_permission |-> r.required_permission]
                            ELSE resources[x]]
        /\ UNCHANGED <<now, methods, event_subscribers, auth_call, request, response,
                       handler_call, discovery, pattern_call, streamVars, clientVars>>

DiscoverCapabilities ==
    \E client_id \in ClientIds, api_key \in DiscoveryKeys :
        /\ discovery' = Discover(client_id, api_key)
        /\ UNCHANGED <<now, methods, event_subscribers, auth_call, request, response,
                       handler_call, resources, pattern_call, streamVars, clientVars>>

(***************************************************************************)
(* _pattern_matches.  To look inside a str, event types and patterns are   *)
(* held as sequences of one-character strings.                             *)
(***************************************************************************)
MaxPatternLen == 2

PatternAlphabet == {"a", "b", "*"}

RECURSIVE StringsUpTo(_)
StringsUpTo(n) ==
    IF n = 0 THEN {<<>>}
    ELSE LET shorter == StringsUpTo(n - 1)
         IN  shorter \cup {Append(w, c) : w \in shorter, c \in PatternAlphabet}

\* "sys.*", "sys.start" and "system.start"
SysStar == <<"s", "y", "s", ".", "*">>

SysStart == <<"s", "y", "s", ".", "s", "t", "a", "r", "t">>

SystemStart == <<"s", "y", "s", "t", "e", "m", ".", "s", "t", "a", "r", "t">>

EventTypes == StringsUpTo(MaxPatternLen) \cup {SysStart, SystemStart}

Patterns == StringsUpTo(MaxPatternLen) \cup {SysStar, SysStart}

\* str.endswith(suffix) for a one-character suffix
EndsWith(str, c) == Len(str) > 0 /\ str[Len(str)] = c

\* str[:-1]
DropLast(str) == SubSeq(str, 1, Len(str) - 1)

\* str.startswith(prefix)
StartsWith(str, prefix) ==
    Len(prefix) <= Len(str) /\ SubSeq(str, 1, Len(prefix)) = prefix

\* A variant of the server's _pattern_matches that keeps the "*" in the prefix.
server_pattern_matches_keeps_star(event_type, pattern) ==
    IF pattern = <<"*">> THEN TRUE
    ELSE IF EndsWith(pattern, "*")
    THEN StartsWith(event_type, pattern)
    ELSE event_type = pattern

\* DistributedServer._pattern_matches
server_pattern_matches(event_type, pattern) ==
    IF pattern = <<"*">> THEN TRUE
    ELSE IF EndsWith(pattern, "*")
    THEN LET prefix == DropLast(pattern)
         IN  StartsWith(event_type, prefix)
    ELSE event_type = pattern

\* DistributedClient._pattern_matches
client_pattern_matches(event_type, pattern) ==
    IF pattern = <<"*">> THEN TRUE
    ELSE IF EndsWith(pattern, "*")
    THEN LET prefix == DropLast(pattern)
         IN  StartsWith(event_type, prefix)
    ELSE event_type = pattern

NoPatternCall ==
    [called |-> FALSE, event_type |-> <<>>, pattern |-> <<>>,
     server |-> FALSE, client |-> FALSE]

CallPatternMatches ==
    \E event_type \in EventTypes, pattern \in Patterns :
        /\ pattern_call' = [called |-> TRUE, event_type |-> event_type,
                            pattern |-> pattern,
                            server |-> server_pattern_matches(event_type, pattern),
                            client |-> client_pattern_matches(event_type, pattern)]
        /\ UNCHANGED <<now, methods, event_subscribers, auth_call, request, response,
                       handler_call, resources, discovery, streamVars, clientVars>>

(***************************************************************************)
(* Event streams and broadcast_event.  The gRPC server runs every          *)
(* SubscribeToEvents handler on its own pool thread, and broadcast_event   *)
(* on the thread of its caller, so the steps of broadcast_event interleave *)
(* with the registration and the "finally" of the handlers.  Each          *)
(* SubscribeToEvents RPC has its own context, numbered in order of         *)
(* arrival; streams[c] is the state of context c:                          *)
(*   "open"    is_active() is True and write() succeeds;                   *)
(*   "broken"  is_active() is True and write() raises;                     *)
(*   "closed"  is_active() is False, the handler has not noticed yet;      *)
(*   "ended"   the handler has left its loop and run its "finally".        *)
(* SubscribeToEvents and SubscriptionEnded above follow the subscriber     *)
(* table alone, for the dispatch server; the actions here follow each      *)
(* subscription together with its stream.                                  *)
(***************************************************************************)
MaxStreams == 3

StreamSubscriptionIds == {"sub-1", "sub-2"}

StreamPatterns == {<<"*">>, SysStar}

BroadcastEventTypes == {SysStart, SystemStart}

NoBroadcast ==
    [pc |-> "idle", event_type |-> <<>>, snapshot |-> <<>>, pending |-> <<>>,
     failed |-> {}]

\* del self.event_subscribers[subscription_id], for a key that is present
Deleted(subscription_id) ==
    [s \in DOMAIN event_subscribers \ {subscription_id} |-> event_subscribers[s]]

\* SubscribeToEvents up to the registration of the subscription; the handler
\* then stays in its loop.  An aborted call registers nothing.
SubscribeToEvents_register ==
    \E client_id \in SubscriberIds, api_key \in RequestKeys,
       pattern \in StreamPatterns, subscription_id \in StreamSubscriptionIds :
        /\ Len(streams) < MaxStreams
        /\ authenticate(client_id, api_key).some
        /\ has_permission(client_id, "subscribe")
        /\ streams' = Append(streams, [state |-> "open",
                                       subscription_id |-> subscription_id,
                                       received |-> FALSE])
        /\ event_subscribers' =
              [s \in DOMAIN event_subscribers \cup {subscription_id} |->
                  IF s = subscription_id
                  THEN [client_id |-> client_id, pattern |-> pattern,
                        context |-> Len(streams) + 1]
                  ELSE event_subscribers[s]]
        /\ UNCHANGED <<now, methods, auth_call, request, response, handler_call,
                       discoverVars, clientVars, broadcast>>

\* The peer's side of a stream starts to refuse writes.
StreamBreaks ==
    \E c \in DOMAIN streams :
        /\ streams[c].state = "open"
        /\ streams' = [streams EXCEPT ![c].state = "broken"]
        /\ UNCHANGED <<now, methods, event_subscribers, auth_call, request, response,
                       handler_call, discoverVars, clientVars, broadcast>>

\* The RPC of a stream terminates: the client went away or cancelled.
StreamCloses ==
    \E c \in DOMAIN streams :
        /\ streams[c].state \in {"open", "broken"}
        /\ streams' = [streams EXCEPT ![c].state = "closed"]
        /\ UNCHANGED <<now, methods, event_subscribers, auth_call, request, response,
                       handler_call, discoverVars, clientVars, broadcast>>

\* The handler of a closed stream leaves its loop and runs its "finally",
\* which deletes whatever is registered under its subscription_id.
SubscribeToEvents_finally ==
    \E c \in DOMAIN streams :
        /\ streams[c].state = "closed"
        /\ streams' = [streams EXCEPT ![c].state = "ended"]
        /\ event_subscribers' =
              IF streams[c].subscription_id \in DOMAIN event_subscribers
              THEN Deleted(streams[c].subscription_id)
              ELSE event_subscribers
        /\ UNCHANGED <<now, methods, auth_call, request, response, handler_call,
                       discoverVars, clientVars, broadcast>>

\* list(self.event_subscribers.items()): the entries in the order of the dict
Snapshots ==
    LET ids == DOMAIN event_subscribers
        orders == {q \in [1..Cardinality(ids) -> ids] : Range(q) = ids}
    IN  {[i \in DOMAIN q |-> [subscription_id |-> q[i],
                              pattern |-> event_subscribers[q[i]].pattern,
                              context |-> event_subscribers[q[i]].context]]
           : q \in orders}

\* broadcast_event up to the start of its loop
broadcast_event_start ==
    \E event_type \in BroadcastEventTypes, snapshot \in Snapshots :
        /\ broadcast.pc = "idle"
        /\ broadcast' = [pc |-> "loop", event_type |-> event_type,
                         snapshot |-> snapshot, pending |-> snapshot, failed |-> {}]
        /\ UNCHANGED <<now, methods, event_subscribers, auth_call, request, response,
                       handler_call, discoverVars, clientVars, streams>>

\* One turn of the loop, up to the end of its "try" block.
broadcast_event_try ==
    /\ broadcast.pc = "loop"
    /\ broadcast.pending # <<>>
    /\ LET subscription == Head(broadcast.pending)
           subscription_id == subscription.subscription_id
           c == subscription.context
       IN  IF ~server_pattern_matches(broadcast.event_type, subscription.pattern)
           THEN /\ broadcast' = [broadcast EXCEPT !.pending = Tail(@)]
                /\ UNCHANGED <<event_subscribers, streams>>
           ELSE IF streams[c].state = "open"
           THEN \* context.write(event)
                /\ streams' = [streams EXCEPT ![c].received = TRUE]
                /\ broadcast' = [broadcast EXCEPT !.pending = Tail(@)]
                /\ UNCHANGED event_subscribers
           ELSE IF streams[c].state = "broken"
           THEN \* context.write(event) raises: on to the "except" block
                /\ broadcast' = [broadcast EXCEPT !.pc = "except",
                                                  !.failed = @ \cup {c}]
                /\ UNCHANGED <<event_subscribers, streams>>
           ELSE IF subscription_id \in DOMAIN event_subscribers
           THEN \* is_active() is False: del self.event_subscribers[...]
                /\ event_subscribers' = Deleted(subscription_id)
                /\ broadcast' = [broadcast EXCEPT !.pending = Tail(@),
                                                  !.failed = @ \cup {c}]
                /\ UNCHANGED streams
           ELSE \* the del raises KeyError: on to the "except" block
                /\ broadcast' = [broadcast EXCEPT !.pc = "except",
                                                  !.failed = @ \cup {c}]
                /\ UNCHANGED <<event_subscribers, streams>>
    /\ UNCHANGED <<now, methods, auth_call, request, response, handler_call,
                   discoverVars, clientVars>>

\* "except": if subscription_id in self.event_subscribers
broadcast_event_except_test ==
    /\ broadcast.pc = "except"
    /\ broadcast' =
          IF Head(broadcast.pending).subscription_id \in DOMAIN event_subscribers
          THEN [broadcast EXCEPT !.pc = "except_del"]
          ELSE [broadcast EXCEPT !.pc = "loop", !.pending = Tail(@)]
    /\ UNCHANGED <<now, methods, event_subscribers, auth_call, request, response,
                   handler_call, discoverVars, clientVars, streams>>

\* "except": del self.event_subscribers[subscription_id].  The key may have
\* gone since the test; the KeyError then leaves broadcast_event.
broadcast_event_except_del ==
    /\ broadcast.pc = "except_del"
    /\ LET subscription_id == Head(broadcast.pending).subscription_id
       IN  IF subscription_id \in DOMAIN event_subscribers
           THEN /\ event_subscribers' = Deleted(subscription_id)
                /\ broadcast' = [broadcast EXCEPT !.pc = "loop", !.pending = Tail(@)]
           ELSE /\ broadcast' = [broadcast EXCEPT !.pc = "raised"]
                /\ UNCHANGED event_subscribers
    /\ UNCHANGED <<now, methods, auth_call, request, response, handler_call,
                   discoverVars, clientVars, streams>>

\* The loop is over: broadcast_event returns.
broadcast_event_return ==
    /\ broadcast.pc = "loop"
    /\ broadcast.pending = <<>>
    /\ broadcast' = [broadcast EXCEPT !.pc = "returned"]
    /\ UNCHANGED <<now, methods, event_subscribers, auth_call, request, response,
                   handler_call, discoverVars, clientVars, streams>>

(***************************************************************************)
(* CircuitBreaker.  execute takes no lock, so calls made by different      *)
(* threads on one breaker interleave.  A call is modelled in two steps:    *)
(* the admission test before the wrapped function is called, and the       *)
(* bookkeeping after it has returned or raised.  Each step is taken as     *)
(* atomic; the interleavings inside a step would only add behaviours.      *)
(***************************************************************************)
FailureThreshold == 5

ResetTimeout == 30

MaxElapsed == 32

Threads == {"t1", "t2"}

\* CircuitBreaker.__init__
NewCircuitBreaker == [state |-> "CLOSED", failure_count |-> 0, last_failure_time |-> 0]

\* execute, the test made before the wrapped function is called: the breaker
\* after it, and whether the function is called.
Admission(cb, time) ==
    IF cb.state = "OPEN"
    THEN IF time - cb.last_failure_time > ResetTimeout
         THEN [admitted |-> TRUE, breaker |-> [cb EXCEPT !.state = "HALF_OPEN"]]
         ELSE [admitted |-> FALSE, breaker |-> cb]
    ELSE [admitted |-> TRUE, breaker |-> cb]

\* execute, after the wrapped function has returned
AfterSuccess(cb) ==
    IF cb.state = "HALF_OPEN"
    THEN [cb EXCEPT !.state = "CLOSED", !.failure_count = 0]
    ELSE cb

\* A variant of the "except" of execute that opens the breaker at every
\* failure, whatever the count
AfterFailure_opens_at_once(cb, time) ==
    [cb EXCEPT !.failure_count = @ + 1, !.last_failure_time = time, !.state = "OPEN"]

\* execute, after the wrapped function has raised
AfterFailure(cb, time) ==
    LET counted == [cb EXCEPT !.failure_count = @ + 1, !.last_failure_time = time]
    IN  IF counted.failure_count >= FailureThreshold
        THEN [counted EXCEPT !.state = "OPEN"]
        ELSE counted

IdleCaller ==
    [pc |-> "idle", trial |-> FALSE, beside_trial |-> FALSE, outcome |-> "none"]

TrialInFlight == \E t \in Threads : callers[t].pc = "running" /\ callers[t].trial

\* Time passes on the client.
ClientTimePasses ==
    \E d \in {ResetTimeout, ResetTimeout + 1} :
        /\ client_time + d <= StartTime + MaxElapsed
        /\ client_time' = client_time + d
        /\ UNCHANGED <<now, methods, event_subscribers, auth_call, request, response,
                       handler_call, discoverVars, streamVars, circuit_breaker, callers,
                       consecutive_failures, connectorVars>>

\* execute up to the call of the wrapped function, or to the raise of
\* "Circuit breaker is open"
execute_enter ==
    \E t \in Threads :
        /\ callers[t].pc = "idle"
        /\ LET admission == Admission(circuit_breaker, client_time)
           IN  /\ circuit_breaker' = admission.breaker
               /\ callers' = [callers EXCEPT ![t] =
                     IF admission.admitted
                     THEN [pc |-> "running",
                           trial |-> circuit_breaker.state = "OPEN",
                           beside_trial |-> TrialInFlight,
                           outcome |-> "none"]
                     ELSE [IdleCaller EXCEPT !.outcome = "rejected"]]
        /\ UNCHANGED <<now, methods, event_subscribers, auth_call, request, response,
                       handler_call, discoverVars, streamVars, client_time,
                       consecutive_failures, connectorVars>>

\* The wrapped function returns: execute from there to its return.
execute_returns ==
    \E t \in Threads :
        /\ callers[t].pc = "running"
        /\ circuit_breaker' = AfterSuccess(circuit_breaker)
        /\ callers' = [callers EXCEPT ![t].pc = "idle", ![t].outcome = "returned"]
        /\ consecutive_failures' = 0
        /\ UNCHANGED <<now, methods, event_subscribers, auth_call, request, response,
                       handler_call, discoverVars, streamVars, client_time,
                       connectorVars>>

\* The wrapped function raises: execute from there to its re-raise.
execute_raises ==
    \E t \in Threads :
        /\ callers[t].pc = "running"
        /\ circuit_breaker' = AfterFailure(circuit_breaker, client_time)
        /\ callers' = [callers EXCEPT ![t].pc = "idle", ![t].outcome = "raised"]
        /\ consecutive_failures' = consecutive_failures + 1
        /\ UNCHANGED <<now, methods, event_subscribers, auth_call, request, response,
                       handler_call, discoverVars, streamVars, client_time,
                       connectorVars>>

(***************************************************************************)
(* DistributedClient: connect, reconnect, invoke_method and                *)
(* _send_method_request, for one thread calling invoke_method.  What a     *)
(* call does on the network is kept as a log of its RPCs, reconnect()      *)
(* calls and sleeps, in order.  The answers of the server and the fate of  *)
(* each RPC are inputs.                                                    *)
(***************************************************************************)
ReconnectAttempts == 1

\* Listener threads that one connector starts
MaxListeners == 2

MaxBackoff == 60

ServerUnaffected ==
    UNCHANGED <<now, methods, event_subscribers, auth_call, request, response,
                handler_call, discoverVars, streamVars>>

\* HealthCheck: the two statuses of the response, or an RpcError
HealthOutcomes == {"SERVING", "NOT_SERVING", "RpcError"}

\* InvokeMethod: the statuses of a MethodResponse, or an RpcError
StatusErrors == {"UNAUTHORIZED", "NOT_FOUND", "ERROR"}

SendOutcomes == {"SUCCESS"} \cup StatusErrors \cup {"RpcError"}

\* The HealthCheck outcomes of the attempts of one reconnect().  Inside
\* reconnect() connected is already False, so a NOT_SERVING answer and an
\* RpcError have the same effect: the failed attempts are drawn as RpcError.
\* No attempt is made after a successful one; k is the number of failed ones.
HealthSequences ==
    {[i \in 1..ReconnectAttempts |-> IF i <= k THEN "RpcError" ELSE "SERVING"]
       : k \in 0..ReconnectAttempts}

Min(a, b) == IF a < b THEN a ELSE b

\* connect(): whether it returned True, the connected flag after it and
\* its RPCs.  discover_capabilities swallows its own errors.
Connect(was_connected, health) ==
    IF health = "SERVING"
    THEN [ok |-> TRUE, connected |-> TRUE,
          log |-> <<"HealthCheck", "DiscoverCapabilities">>, slept |-> 0]
    ELSE IF health = "NOT_SERVING"
    THEN [ok |-> FALSE, connected |-> was_connected,
          log |-> <<"HealthCheck">>, slept |-> 0]
    ELSE [ok |-> FALSE, connected |-> FALSE, log |-> <<"HealthCheck">>, slept |-> 0]

\* The loop of reconnect() from the given attempt on; connected is False.
RECURSIVE ReconnectLoop(_, _)
ReconnectLoop(attempt, healths) ==
    IF attempt >= ReconnectAttempts
    THEN [ok |-> FALSE, connected |-> FALSE, log |-> <<>>, slept |-> 0]
    ELSE LET c == Connect(FALSE, healths[attempt + 1])
             backoff == Min(2 ^ attempt, MaxBackoff)
             rest == ReconnectLoop(attempt + 1, healths)
         IN  IF c.ok THEN c
             ELSE [ok |-> rest.ok, connected |-> rest.connected,
                   log |-> c.log \o <<"sleep">> \o rest.log,
                   slept |-> backoff + rest.slept]

\* reconnect()
Reconnect(healths) ==
    LET loop == ReconnectLoop(0, healths)
    IN  [loop EXCEPT !.log = <<"reconnect">> \o @]

\* The end of _send_method_request once a send has been answered or has failed
Answered(outcome, now_connected, log, slept) ==
    [raised |-> outcome # "SUCCESS",
     error |-> IF outcome = "SUCCESS" THEN "" ELSE outcome,
     answer |-> IF outcome = "RpcError" THEN "none" ELSE outcome,
     connected |-> now_connected, log |-> log, slept |-> slept]

\* A variant of _send_method_request that sends the request once more after
\* a status error.
send_method_request_resends_status(was_connected, first, reconnection, second) ==
    IF first = "SUCCESS"
    THEN Answered(first, was_connected, <<"InvokeMethod">>, 0)
    ELSE IF first # "RpcError"
    THEN Answered(first, was_connected, <<"InvokeMethod", "InvokeMethod">>, 0)
    ELSE IF reconnection.ok
    THEN Answered(second, reconnection.connected,
                  <<"InvokeMethod">> \o reconnection.log \o <<"InvokeMethod">>,
                  reconnection.slept)
    ELSE [raised |-> TRUE, error |-> "RPC failed", answer |-> "none",
          connected |-> reconnection.connected,
          log |-> <<"InvokeMethod">> \o reconnection.log,
          slept |-> reconnection.slept]

\* A variant of _send_method_request that reconnects a second time when the
\* retry fails at transport level.
send_method_request_reconnects_again(was_connected, first, reconnection, second) ==
    IF first # "RpcError"
    THEN Answered(first, was_connected, <<"InvokeMethod">>, 0)
    ELSE IF reconnection.ok /\ second = "RpcError"
    THEN [raised |-> TRUE, error |-> "RpcError", answer |-> "none",
          connected |-> reconnection.connected,
          log |-> <<"InvokeMethod">> \o reconnection.log \o <<"InvokeMethod">>
                    \o reconnection.log,
          slept |-> reconnection.slept + reconnection.slept]
    ELSE IF reconnection.ok
    THEN Answered(second, reconnection.connected,
                  <<"InvokeMethod">> \o reconnection.log \o <<"InvokeMethod">>,
                  reconnection.slept)
    ELSE [raised |-> TRUE, error |-> "RPC failed", answer |-> "none",
          connected |-> reconnection.connected,
          log |-> <<"InvokeMethod">> \o reconnection.log,
          slept |-> reconnection.slept]

\* _send_method_request: first is the fate of the send; reconnection is what
\* reconnect() does and second the fate of the retry, both used after an
\* RpcError only.
send_method_request(was_connected, first, reconnection, second) ==
    IF first # "RpcError"
    THEN Answered(first, was_connected, <<"InvokeMethod">>, 0)
    ELSE IF reconnection.ok
    THEN Answered(second, reconnection.connected,
                  <<"InvokeMethod">> \o reconnection.log \o <<"InvokeMethod">>,
                  reconnection.slept)
    ELSE [raised |-> TRUE, error |-> "RPC failed", answer |-> "none",
          connected |-> reconnection.connected,
          log |-> <<"InvokeMethod">> \o reconnection.log,
          slept |-> reconnection.slept]

\* reconnect() is not called
NoReconnection == [ok |-> TRUE, connected |-> TRUE, log |-> <<>>, slept |-> 0]

\* "turn" changes at every call, to tell a call from the one before it.
NoInvocation ==
    [called |-> FALSE, turn |-> FALSE, raised |-> FALSE, error |-> "", answer |-> "none",
     log |-> <<>>]

\* The record of an invoke_method call that raised
Failed(error, log) ==
    [called |-> TRUE, turn |-> ~invocation.turn, raised |-> TRUE, error |-> error,
     answer |-> "none", log |-> log]

\* No connect() or reconnect() has been called directly.  "calls" counts the
\* connect() calls of the reconnect() in progress, "successes" those that
\* returned True, "slept" the seconds it slept; "before" is the flag as the
\* last connect() found it and "discover" the fate of the DiscoverCapabilities
\* RPC that connect() made.
NoConnection ==
    [op |-> "none", pc |-> "idle", attempt |-> 0, before |-> FALSE, health |-> "none",
     discover |-> "none", calls |-> 0, successes |-> 0, slept |-> 0, returned |-> "none"]

\* discover_capabilities(), called by connect() after a SERVING reply, swallows
\* what its RPC raises.
DiscoverOutcomes(health) ==
    IF health = "SERVING" THEN {"returned", "raised"} ELSE {"none"}

\* DistributedClient.connect, as called by __init__ and by the application
connect ==
    /\ connection.pc = "idle"
    /\ \E health \in HealthOutcomes :
        \E c \in {Connect(connected, health)}, discover \in DiscoverOutcomes(health) :
            /\ connected' = c.connected
            /\ connection' = [NoConnection EXCEPT !.op = "connect", !.health = health,
                                 !.before = connected, !.discover = discover,
                                 !.calls = 1,
                                 !.successes = IF c.ok THEN 1 ELSE 0,
                                 !.returned = IF c.ok THEN "True" ELSE "False"]
    /\ UNCHANGED <<breakerVars, invocation, besideVars>>
    /\ ServerUnaffected

\* reconnect(), line 112: the flag is cleared before the first attempt
reconnect_start ==
    /\ connection.pc = "idle"
    /\ connected' = FALSE
    /\ connection' = [NoConnection EXCEPT !.op = "reconnect", !.pc = "loop"]
    /\ UNCHANGED <<breakerVars, invocation, besideVars>>
    /\ ServerUnaffected

\* A variant of AfterAttempt that goes on with the loop after a success
AfterAttempt_keeps_trying(conn, health, discover, c) ==
    [conn EXCEPT !.pc = "sleep", !.health = health, !.discover = discover,
                 !.calls = @ + 1, !.successes = @ + (IF c.ok THEN 1 ELSE 0)]

\* The record of reconnect() after the connect() call of one pass of its loop
AfterAttempt(conn, health, discover, c) ==
    IF c.ok
    THEN [conn EXCEPT !.pc = "idle", !.health = health, !.discover = discover,
                      !.calls = @ + 1, !.successes = @ + 1, !.returned = "True"]
    ELSE [conn EXCEPT !.pc = "sleep", !.health = health, !.discover = discover,
                      !.calls = @ + 1]

\* One pass of the loop of reconnect(): "if self.connect(): return True"
reconnect_attempt ==
    /\ connection.pc = "loop"
    /\ connection.attempt < ReconnectAttempts
    /\ \E health \in HealthOutcomes :
        \E c \in {Connect(connected, health)}, discover \in DiscoverOutcomes(health) :
            /\ connected' = c.connected
            /\ connection' = AfterAttempt(connection, health, discover, c)
    /\ UNCHANGED <<breakerVars, invocation, besideVars>>
    /\ ServerUnaffected

\* The backoff of reconnect() after a failed attempt.  The clock is followed
\* up to StartTime + MaxElapsed and stands there; the record keeps the time
\* slept in full.
reconnect_sleep ==
    /\ connection.pc = "sleep"
    /\ \E backoff \in {Min(2 ^ connection.attempt, MaxBackoff)} :
        /\ connection' = [connection EXCEPT !.pc = "loop", !.attempt = @ + 1,
                                             !.slept = @ + backoff]
        /\ client_time' = Min(client_time + backoff, StartTime + MaxElapsed)
    /\ UNCHANGED <<circuit_breaker, callers, consecutive_failures, connected,
                   invocation, besideVars>>
    /\ ServerUnaffected

\* reconnect() leaves its loop: "return False"
reconnect_gives_up ==
    /\ connection.pc = "loop"
    /\ connection.attempt >= ReconnectAttempts
    /\ connection' = [connection EXCEPT !.pc = "idle", !.returned = "False"]
    /\ UNCHANGED <<breakerVars, connected, invocation, besideVars>>
    /\ ServerUnaffected

\* invoke_method when it cannot connect: "Not connected to server"
invoke_method_not_connected(early) ==
    /\ ~early.ok
    /\ connected' = early.connected
    /\ client_time' = client_time + early.slept
    /\ invocation' = Failed("Not connected to server", early.log)
    /\ UNCHANGED circuit_breaker

\* invoke_method when the breaker refuses the call: "Circuit breaker is open"
invoke_method_rejected(early, admission) ==
    /\ early.ok
    /\ ~admission.admitted
    /\ connected' = early.connected
    /\ client_time' = client_time + early.slept
    /\ invocation' = Failed("Circuit breaker is open", early.log)
    /\ circuit_breaker' = admission.breaker

\* invoke_method when the breaker calls _send_method_request
invoke_method_sent(early, admission, sent) ==
    /\ early.ok
    /\ admission.admitted
    /\ connected' = sent.connected
    /\ client_time' = client_time + early.slept + sent.slept
    /\ invocation' = [called |-> TRUE, turn |-> ~invocation.turn,
                      raised |-> sent.raised, error |-> sent.error,
                      answer |-> sent.answer, log |-> early.log \o sent.log]
    /\ circuit_breaker' =
          IF sent.raised
          THEN AfterFailure(admission.breaker, client_time + early.slept + sent.slept)
          ELSE AfterSuccess(admission.breaker)

\* DistributedClient.invoke_method.  The inputs are the fate of the
\* reconnect() made when the call starts disconnected, of the send, and of
\* the reconnect() and the retry that follow an RpcError.
invoke_method ==
    \E healths_before \in IF connected THEN {<<>>} ELSE HealthSequences,
       first \in SendOutcomes :
      \E early \in {IF connected THEN NoReconnection ELSE Reconnect(healths_before)},
         healths \in IF first = "RpcError" THEN HealthSequences ELSE {<<>>} :
       \E reconnection \in {IF first = "RpcError" THEN Reconnect(healths)
                             ELSE NoReconnection},
          admission \in {Admission(circuit_breaker, client_time + early.slept)} :
        \E second \in IF first = "RpcError" /\ reconnection.ok
                       THEN SendOutcomes ELSE {"SUCCESS"} :
         \E sent \in {send_method_request(early.connected, first, reconnection,
                                           second)} :
            /\ client_time + early.slept + sent.slept <= StartTime + MaxElapsed
            /\ \/ invoke_method_not_connected(early)
               \/ invoke_method_rejected(early, admission)
               \/ invoke_method_sent(early, admission, sent)
            /\ UNCHANGED <<callers, consecutive_failures, connection, besideVars>>
            /\ ServerUnaffected

(***************************************************************************)
(* client/client.py: subscribe_to_events and _event_listener_loop.         *)
(* event_handlers is the sequence of the dict's keys in insertion order;   *)
(* a handler is named by the pattern it is registered under.               *)
(***************************************************************************)
\* The application's thread, where one is enough
Foreground == "t1"

\* A thread that is not inside subscribe_to_events
IdleSubscriber == [pc |-> "idle", pattern |-> <<>>]

\* The connector's other fields stay as they are while it subscribes and
\* listens
ListenerFrame ==
    /\ UNCHANGED <<breakerVars, invocation, connection, restVars>>
    /\ ServerUnaffected

\* subscribe_to_events, line 230: "if not self.connected"
subscribe_to_events(t) ==
    /\ subscribers[t].pc = "idle"
    /\ \E pattern \in StreamPatterns :
        subscribers' = [subscribers EXCEPT ![t] =
                           [pc |-> IF connected THEN "register" ELSE "reconnect",
                            pattern |-> pattern]]
    /\ UNCHANGED <<connected, event_handlers, event_listener_thread, listeners>>
    /\ ListenerFrame

\* reconnect() as called on line 230, first statement: the flag is cleared
subscribe_reconnect_start(t) ==
    /\ subscribers[t].pc = "reconnect"
    /\ connected' = FALSE
    /\ subscribers' = [subscribers EXCEPT ![t].pc = "reconnecting"]
    /\ UNCHANGED <<event_handlers, event_listener_thread, listeners>>
    /\ ListenerFrame

\* The attempts of that reconnect(); when it fails the call raises
\* "Not connected to server".
subscribe_reconnect(t) ==
    /\ subscribers[t].pc = "reconnecting"
    /\ \E healths \in HealthSequences :
        \E r \in {ReconnectLoop(0, healths)} :
            /\ connected' = r.connected
            /\ subscribers' = [subscribers EXCEPT ![t] =
                                  IF r.ok THEN [@ EXCEPT !.pc = "register"]
                                  ELSE IdleSubscriber]
    /\ UNCHANGED <<event_handlers, event_listener_thread, listeners>>
    /\ ListenerFrame

\* TRUE iff pattern is a key of the dict
IsKey(handlers, pattern) == \E i \in 1..Len(handlers) : handlers[i] = pattern

\* Line 233: self.event_handlers[pattern] = handler
subscribe_register(t) ==
    /\ subscribers[t].pc = "register"
    /\ event_handlers' = IF IsKey(event_handlers, subscribers[t].pattern)
                          THEN event_handlers
                          ELSE Append(event_handlers, subscribers[t].pattern)
    /\ subscribers' = [subscribers EXCEPT ![t].pc = "check"]
    /\ UNCHANGED <<connected, event_listener_thread, listeners>>
    /\ ListenerFrame

\* Thread.is_alive() of listener thread i
is_alive(i) == listeners[i].pc # "dead"

\* Line 236: "if self.event_listener_thread is None or not ... is_alive()"
subscribe_check(t) ==
    /\ subscribers[t].pc = "check"
    /\ subscribers' = [subscribers EXCEPT ![t] =
                          IF event_listener_thread = 0 \/ ~is_alive(event_listener_thread)
                          THEN [@ EXCEPT !.pc = "start"]
                          ELSE IdleSubscriber]
    /\ UNCHANGED <<connected, event_handlers, event_listener_thread, listeners>>
    /\ ListenerFrame

\* A thread that has just been started on _event_listener_loop.  "resumed"
\* is set by a reconnect() that succeeded, until the loop test that follows.
NewListener ==
    [pc |-> "while", resumed |-> FALSE, event_type |-> <<>>, registered |-> <<>>,
     pos |-> 0, called |-> <<>>]

\* Lines 237-239: the thread is created and started
subscribe_start(t) ==
    /\ subscribers[t].pc = "start"
    /\ Len(listeners) < MaxListeners
    /\ listeners' = Append(listeners, NewListener)
    /\ event_listener_thread' = Len(listeners) + 1
    /\ subscribers' = [subscribers EXCEPT ![t] = IdleSubscriber]
    /\ UNCHANGED <<connected, event_handlers>>
    /\ ListenerFrame

\* _event_listener_loop, "while self.connected": the stream is opened, or
\* the loop and the thread end
listener_while(i) ==
    /\ listeners[i].pc = "while"
    /\ listeners' = [listeners EXCEPT ![i] =
                        [@ EXCEPT !.pc = IF connected THEN "stream" ELSE "dead",
                                  !.resumed = FALSE]]
    /\ UNCHANGED <<connected, event_handlers, event_listener_thread, subscribers>>
    /\ ListenerFrame

\* The stream yields an event: the iteration over event_handlers.items()
\* begins.  "registered" is the dict as the iterator found it.
listener_event(i) ==
    /\ listeners[i].pc = "stream"
    /\ \E event_type \in BroadcastEventTypes :
        listeners' = [listeners EXCEPT ![i] =
                         [@ EXCEPT !.pc = "deliver", !.event_type = event_type,
                                   !.registered = event_handlers, !.pos = 1,
                                   !.called = <<>>]]
    /\ UNCHANGED <<connected, event_handlers, event_listener_thread, subscribers>>
    /\ ListenerFrame

\* Handler outcomes: it returns or it raises
HandlerOutcomes == {"returned", "raised"}

\* The listener after one step of the iteration over event_handlers.items().
\* A dict whose size has changed since the iteration began makes the
\* iterator raise RuntimeError, which the outer "except Exception" takes.
\* A handler that raises is logged and the iteration goes on.
Delivery(listener, handlers, outcome) ==
    IF Len(handlers) # Len(listener.registered)
    THEN [NewListener EXCEPT !.pc = "sleep"]
    ELSE IF listener.pos > Len(handlers)
    THEN [NewListener EXCEPT !.pc = "stream"]
    ELSE IF client_pattern_matches(listener.event_type, handlers[listener.pos])
    THEN [listener EXCEPT !.pos = @ + 1,
                          !.called = Append(@, <<handlers[listener.pos], outcome>>)]
    ELSE [listener EXCEPT !.pos = @ + 1]

\* One step of "for pattern, handler in self.event_handlers.items()"
listener_deliver(i) ==
    /\ listeners[i].pc = "deliver"
    /\ \E outcome \in HandlerOutcomes :
        listeners' = [listeners EXCEPT ![i] = Delivery(@, event_handlers, outcome)]
    /\ UNCHANGED <<connected, event_handlers, event_listener_thread, subscribers>>
    /\ ListenerFrame

\* "except Exception": time.sleep(5), then the loop test again
listener_sleep(i) ==
    /\ listeners[i].pc = "sleep"
    /\ listeners' = [listeners EXCEPT ![i].pc = "while"]
    /\ UNCHANGED <<connected, event_handlers, event_listener_thread, subscribers>>
    /\ ListenerFrame

\* The stream ends without an error: the for loop is over, the loop test
\* follows
listener_stream_ends(i) ==
    /\ listeners[i].pc = "stream"
    /\ listeners' = [listeners EXCEPT ![i].pc = "while"]
    /\ UNCHANGED <<connected, event_handlers, event_listener_thread, subscribers>>
    /\ ListenerFrame

\* "except grpc.RpcError": self.connected = False, and reconnect() clears it
\* again
listener_stream_fails(i) ==
    /\ listeners[i].pc = "stream"
    /\ connected' = FALSE
    /\ listeners' = [listeners EXCEPT ![i].pc = "reconnecting"]
    /\ UNCHANGED <<event_handlers, event_listener_thread, subscribers>>
    /\ ListenerFrame

\* The attempts of that reconnect(): "continue" when it succeeds, "break"
\* when it fails
listener_reconnect(i) ==
    /\ listeners[i].pc = "reconnecting"
    /\ \E healths \in HealthSequences :
        \E r \in {ReconnectLoop(0, healths)} :
            /\ connected' = r.connected
            /\ listeners' = [listeners EXCEPT ![i] =
                                [@ EXCEPT !.pc = IF r.ok THEN "while" ELSE "dead",
                                          !.resumed = r.ok]]
    /\ UNCHANGED <<event_handlers, event_listener_thread, subscribers>>
    /\ ListenerFrame

(***************************************************************************)
(* client/client.py: several DistributedClient objects in one process.     *)
(* An object is named by its place in the sequence of the objects of its   *)
(* class; a field that holds an object holds that number.                  *)
(***************************************************************************)
\* Connectors that the application constructs
MaxConnectors == 2

\* A variant of CircuitBreaker in which every connector gets the breaker
\* that the first one created
CircuitBreaker_shared(heap) ==
    IF heap = <<>>
    THEN [heap |-> <<NewCircuitBreaker>>, ref |-> 1]
    ELSE [heap |-> heap, ref |-> 1]

\* CircuitBreaker(): a new object, and the reference to it
CircuitBreaker(heap) ==
    [heap |-> Append(heap, NewCircuitBreaker), ref |-> Len(heap) + 1]

\* No invoke_method call has been made on any connector
NoCall == [connector |-> 0, turn |-> FALSE, raised |-> FALSE]

\* The one connector followed in detail stays as it is
FleetFrame ==
    /\ UNCHANGED <<circuit_breaker, callers, consecutive_failures, connected,
                   invocation, connection, listenerVars, raceVars, serviceVars>>
    /\ ServerUnaffected

\* DistributedClient.__init__: the breaker is created, then connect() is
\* called
new_connector ==
    /\ Len(connectors) < MaxConnectors
    /\ \E health \in HealthOutcomes :
        \E made \in {CircuitBreaker(breakers)} :
            /\ breakers' = made.heap
            /\ connectors' = Append(connectors,
                                    [circuit_breaker |-> made.ref,
                                     connected |-> Connect(FALSE, health).connected])
    /\ UNCHANGED <<client_time, last_call>>
    /\ FleetFrame

\* invoke_method on a connector whose flag is was_connected and whose breaker
\* is cb, at time: the flag and the breaker after the call, the time it
\* slept and whether it raised
InvokeOn(was_connected, cb, time, early, sent) ==
    IF ~early.ok
    THEN [connected |-> early.connected, breaker |-> cb, slept |-> early.slept,
          raised |-> TRUE]
    ELSE LET admission == Admission(cb, time + early.slept)
         IN  IF ~admission.admitted
             THEN [connected |-> early.connected, breaker |-> admission.breaker,
                   slept |-> early.slept, raised |-> TRUE]
             ELSE [connected |-> sent.connected,
                   breaker |-> IF sent.raised
                               THEN AfterFailure(admission.breaker,
                                                 time + early.slept + sent.slept)
                               ELSE AfterSuccess(admission.breaker),
                   slept |-> early.slept + sent.slept,
                   raised |-> sent.raised]

\* The server answers every HealthCheck of a reconnect() with SERVING
Serving == [i \in 1..ReconnectAttempts |-> "SERVING"]

\* invoke_method called on connector c.  The sends are answered or fail as
\* in invoke_method above; the reconnections meet a serving server, so that
\* no backoff is slept and the clock moves by ClientTimePasses only.
connector_invoke_method(c) ==
    /\ \E first \in SendOutcomes :
        \E early \in IF connectors[c].connected THEN {NoReconnection}
                      ELSE {Reconnect(Serving)},
           reconnection \in IF first = "RpcError"
                             THEN {Reconnect(Serving)}
                             ELSE {NoReconnection} :
         \E second \in IF first = "RpcError" /\ reconnection.ok
                        THEN SendOutcomes ELSE {"SUCCESS"} :
          \E done \in {InvokeOn(connectors[c].connected,
                                 breakers[connectors[c].circuit_breaker], client_time,
                                 early,
                                 send_method_request(early.connected, first,
                                                     reconnection, second))} :
            /\ client_time + done.slept <= StartTime + MaxElapsed
            /\ client_time' = client_time + done.slept
            /\ breakers' = [breakers EXCEPT ![connectors[c].circuit_breaker] =
                                                done.breaker]
            /\ connectors' = [connectors EXCEPT ![c].connected = done.connected]
            /\ last_call' = [connector |-> c, turn |-> ~last_call.turn,
                             raised |-> done.raised]
    /\ FleetFrame

(***************************************************************************)
(* client/client.py: reconnect() and connect() statement by statement, as  *)
(* run by the listener thread (line 274) and by a foreground invoke_method *)
(* (lines 172 and 217) on the same connector.  No statement of the class   *)
(* takes a lock.                                                           *)
(***************************************************************************)
RaceThreads == {"listener", "foreground"}

\* Channels that the connector creates
MaxChannels == 3

\* A thread that is not inside reconnect().  "rpc" is the channel its
\* HealthCheck travels on.
Outside == [pc |-> "outside", attempt |-> 0, rpc |-> 0]

\* The rest of the connector stays as it is
RaceFrame ==
    /\ UNCHANGED <<breakerVars, invocation, connection, listenerVars, fleetVars,
                   serviceVars>>
    /\ ServerUnaffected

\* The thread's RPC has failed, or it found connected False: it enters
\* reconnect(), whose first statement clears the flag (line 112)
race_reconnect(t) ==
    /\ reconnecting[t].pc = "outside"
    /\ connected' = FALSE
    /\ reconnecting' = [reconnecting EXCEPT ![t].pc = "attempt"]
    /\ UNCHANGED <<channels, stub>>
    /\ RaceFrame

\* connect(), lines 85-86: a new channel, and the stub bound to it
race_connect_channel(t) ==
    /\ reconnecting[t].pc = "attempt"
    /\ reconnecting[t].attempt < ReconnectAttempts
    /\ Len(channels) < MaxChannels
    /\ channels' = Append(channels, "unchecked")
    /\ stub' = Len(channels) + 1
    /\ reconnecting' = [reconnecting EXCEPT ![t].pc = "call"]
    /\ UNCHANGED connected
    /\ RaceFrame

\* connect(), line 89: self.stub.HealthCheck(...) is sent on the channel
\* that self.stub is bound to at this moment
race_health_check(t) ==
    /\ reconnecting[t].pc = "call"
    /\ reconnecting' = [reconnecting EXCEPT ![t].pc = "reply", ![t].rpc = stub]
    /\ UNCHANGED <<connected, channels, stub>>
    /\ RaceFrame

\* connect(), lines 93-108: the reply, or the RpcError, of that HealthCheck
race_health_reply(t) ==
    /\ reconnecting[t].pc = "reply"
    /\ \E health \in HealthOutcomes :
        \E c \in {Connect(connected, health)} :
            /\ connected' = c.connected
            /\ channels' = [channels EXCEPT ![reconnecting[t].rpc] =
                                IF c.ok THEN "serving" ELSE "failed"]
            /\ reconnecting' = [reconnecting EXCEPT ![t] =
                                    IF c.ok THEN Outside
                                    ELSE [@ EXCEPT !.pc = "sleep", !.rpc = 0]]
    /\ UNCHANGED stub
    /\ RaceFrame

\* reconnect(), lines 121-126: the backoff after a failed attempt
race_sleep(t) ==
    /\ reconnecting[t].pc = "sleep"
    /\ reconnecting' = [reconnecting EXCEPT ![t].pc = "attempt",
                                            ![t].attempt = @ + 1]
    /\ UNCHANGED <<connected, channels, stub>>
    /\ RaceFrame

\* reconnect(), lines 128-129: "return False"
race_gives_up(t) ==
    /\ reconnecting[t].pc = "attempt"
    /\ reconnecting[t].attempt >= ReconnectAttempts
    /\ reconnecting' = [reconnecting EXCEPT ![t] = Outside]
    /\ UNCHANGED <<connected, channels, stub>>
    /\ RaceFrame

(***************************************************************************)
(* server/sqlite_todo_service.py: SQLiteTodoService over the tasks table   *)
(* of server/db_manager.py.  A parameter is a JSON value, or is absent     *)
(* from the params dict; a JSON number is kept as its decimal text.        *)
(***************************************************************************)
Str(s) == [t |-> "str", v |-> s]

Num(digits) == [t |-> "num", v |-> digits]

Null == [t |-> "null", v |-> ""]

Absent == [t |-> "absent", v |-> ""]

\* Rows that the table holds
MaxTasks == 2

TodoClients == {"c1", "c2"}

Titles == {Absent, Null, Str("a"), Num("5")}

Priorities == {Absent, Null, Str("high")}

DueDates == {Absent, Str("2025-05-15")}

\* What a column declared TEXT stores for a bound value: a number becomes
\* its text, a string and NULL stay
Text(value) == IF value.t = "num" THEN Str(value.v) ELSE value

\* params.get(key, default)
Get(value, default) == IF value = Absent THEN default ELSE value

\* A variant of add_task without the test of line 31: the title is read
\* with params.get
add_task_without_test(rows, params, client_id) ==
    [rows |-> Append(rows, [id |-> Len(rows) + 1, client_id |-> client_id,
                            title |-> Text(Get(params.title, Str(""))),
                            priority |-> Text(Get(params.priority, Str("medium"))),
                            due_date |-> Text(Get(params.due_date, Null)),
                            completed |-> FALSE]),
     result |-> "success"]

\* add_task: the table after the call and the kind of dict returned.
\* "missing" is {"error": "Missing required parameter 'title'"}, "error" is
\* the dict returned for an sqlite3.Error (a NULL title breaks NOT NULL),
\* "success" the one with the task_id.
add_task(rows, params, client_id) ==
    IF params.title = Absent
    THEN [rows |-> rows, result |-> "missing"]
    ELSE IF params.title = Null
    THEN [rows |-> rows, result |-> "error"]
    ELSE [rows |-> Append(rows, [id |-> Len(rows) + 1, client_id |-> client_id,
                                 title |-> Text(params.title),
                                 priority |-> Text(Get(params.priority, Str("medium"))),
                                 due_date |-> Text(Get(params.due_date, Null)),
                                 completed |-> FALSE]),
          result |-> "success"]

\* The key of "ORDER BY CASE WHEN due_date IS NULL THEN 1 ELSE 0 END,
\* due_date ASC, CASE priority WHEN 'high' THEN 0 WHEN 'medium' THEN 1 ELSE 2
\* END"; DueDates has one date only
OrderKey(row) ==
    (IF row.due_date = Null THEN 3 ELSE 0)
    + (IF row.priority = Str("high") THEN 0
       ELSE IF row.priority = Str("medium") THEN 1 ELSE 2)

\* The elements of seq whose key is k, in order
RECURSIVE Bucket(_, _, _)
Bucket(seq, keys, k) ==
    IF seq = <<>> THEN <<>>
    ELSE (IF Head(keys) = k THEN <<Head(seq)>> ELSE <<>>)
         \o Bucket(Tail(seq), Tail(keys), k)

\* seq sorted by the keys k..max, elements of equal key staying in order
RECURSIVE StableSort(_, _, _, _)
StableSort(seq, keys, k, max) ==
    IF k > max THEN <<>>
    ELSE Bucket(seq, keys, k) \o StableSort(seq, keys, k + 1, max)

\* The rows that "WHERE client_id = ? AND completed = 0" keeps
RECURSIVE Where(_, _)
Where(rows, client_id) ==
    IF rows = <<>> THEN <<>>
    ELSE (IF Head(rows).client_id = client_id /\ ~Head(rows).completed
          THEN <<Head(rows)>> ELSE <<>>) \o Where(Tail(rows), client_id)

\* A variant of get_tasks whose query has no WHERE clause
get_tasks_of_everyone(rows, client_id) ==
    StableSort(rows, [i \in 1..Len(rows) |-> OrderKey(rows[i])], 0, 5)

\* get_tasks with include_completed false: the "tasks" list returned.  Rows
\* of equal key are taken in rowid order.
get_tasks(rows, client_id) ==
    LET kept == Where(rows, client_id)
    IN  StableSort(kept, [i \in 1..Len(kept) |-> OrderKey(kept[i])], 0, 5)

\* No call has been made on the service.  "title" is the title parameter of
\* an add_task call.
NoTodoCall ==
    [op |-> "none", turn |-> FALSE, client_id |-> "", title |-> Absent, result |-> "",
     tasks |-> <<>>]

\* The connectors and the servers stay as they are
ServiceFrame ==
    /\ UNCHANGED <<breakerVars, connected, invocation, connection, listenerVars,
                   fleetVars, raceVars>>
    /\ ServerUnaffected

\* A client calls add_task
CallAddTask ==
    /\ \E client_id \in TodoClients, title \in Titles, priority \in Priorities,
          due_date \in DueDates :
        \E params \in {[title |-> title, priority |-> priority,
                         due_date |-> due_date]} :
          \E done \in {add_task(todo_tasks, params, client_id)} :
            /\ Len(done.rows) <= MaxTasks
            /\ todo_tasks' = done.rows
            /\ todo_added' = IF done.result = "success"
                              THEN Append(todo_added,
                                          [client_id |-> client_id, params |-> params])
                              ELSE todo_added
            /\ todo_call' = [NoTodoCall EXCEPT !.op = "add_task",
                                                !.turn = ~todo_call.turn,
                                                !.client_id = client_id,
                                                !.title = title,
                                                !.result = done.result]
    /\ UNCHANGED <<agenda_call, laterVars>>
    /\ ServiceFrame

\* A client calls get_tasks
CallGetTasks ==
    /\ \E client_id \in TodoClients :
        todo_call' = [NoTodoCall EXCEPT !.op = "get_tasks", !.turn = ~todo_call.turn,
                                        !.client_id = client_id,
                                        !.result = "success",
                                        !.tasks = get_tasks(todo_tasks, client_id)]
    /\ UNCHANGED <<todo_tasks, todo_added, agenda_call, laterVars>>
    /\ ServiceFrame

(***************************************************************************)
(* client/multi_client.py: MultiServerClient.generate_agenda.  The fate of *)
(* each sub-call is an input: invoke_method raises, or returns the dict    *)
(* that the server's handler answered.                                     *)
(***************************************************************************)
ServerTypes == {"weather", "calendar", "todo"}

\* invoke_method raised (not connected, RPC failed, error status)
SubcallRaised == [raised |-> TRUE, has |-> FALSE, items |-> <<>>]

\* invoke_method returned a dict without the key read from it, such as
\* {"status": "error", "message": ...}
Keyless == [raised |-> FALSE, has |-> FALSE, items |-> <<>>]

\* invoke_method returned a dict with the key, holding items
With(items) == [raised |-> FALSE, has |-> TRUE, items |-> items]

\* All sequences over set of length up to n
RECURSIVE SeqsUpTo(_, _)
SeqsUpTo(set, n) ==
    IF n = 0 THEN {<<>>}
    ELSE LET shorter == SeqsUpTo(set, n - 1)
         IN  shorter \cup {Append(q, x) : q \in shorter, x \in set}

\* get_current_weather: the whole dict returned is the section
WeatherOutcomes == {SubcallRaised, With(<<"sunny">>)}

\* get_today_events: the "events" list
EventsOutcomes == {SubcallRaised, Keyless} \cup {With(q) : q \in SeqsUpTo({"meeting"}, 1)}

\* The tasks that get_tasks returns: the priority column holds a string or
\* NULL
AgendaTasks ==
    {[title |-> "a", priority |-> priority] :
        priority \in {Str("high"), Str("low"), Null}}

\* get_tasks: the "tasks" list
TasksOutcomes == {SubcallRaised, Keyless} \cup {With(q) : q \in SeqsUpTo(AgendaTasks, MaxTasks)}

\* priority_order.get(x["priority"].lower(), 99), with 3 standing for 99
PriorityRank(task) ==
    IF task.priority = Str("high") THEN 0
    ELSE IF task.priority = Str("medium") THEN 1
    ELSE IF task.priority = Str("low") THEN 2
    ELSE 3

\* The body of a try block: the value it assigns to its section of the
\* agenda, if it assigns one, and whether an exception left it
Body(outcome, value) ==
    IF outcome.raised THEN [exception |-> TRUE, assigned |-> FALSE, value |-> <<>>]
    ELSE IF ~outcome.has THEN [exception |-> FALSE, assigned |-> FALSE, value |-> <<>>]
    ELSE [exception |-> FALSE, assigned |-> TRUE, value |-> value]

\* Lines 274-291: None has no lower(), so a task whose priority is NULL makes
\* the sort raise AttributeError before agenda["tasks"] is assigned
TasksBody(outcome) ==
    IF ~outcome.raised /\ outcome.has
       /\ \E i \in DOMAIN outcome.items : outcome.items[i].priority = Null
    THEN [exception |-> TRUE, assigned |-> FALSE, value |-> <<>>]
    ELSE Body(outcome,
              StableSort(outcome.items,
                         [i \in DOMAIN outcome.items |-> PriorityRank(outcome.items[i])],
                         0, 3))

\* A section of the agenda: its default unless the server is configured and
\* the try block assigned it; "except Exception" only logs
Section(configured, body, default) ==
    IF configured /\ body.assigned THEN body.value ELSE default

\* generate_agenda: the agenda returned and the sub-calls made, in order
generate_agenda(servers, weather, events, tasks) ==
    [agenda |-> [weather |-> Section("weather" \in servers, Body(weather, weather.items),
                                      <<"None">>),
                 events |-> Section("calendar" \in servers, Body(events, events.items),
                                     <<>>),
                 tasks |-> Section("todo" \in servers, TasksBody(tasks), <<>>)],
     calls |-> (IF "weather" \in servers THEN <<"weather">> ELSE <<>>)
               \o (IF "calendar" \in servers THEN <<"calendar">> ELSE <<>>)
               \o (IF "todo" \in servers THEN <<"todo">> ELSE <<>>),
     raised |-> FALSE]

\* generate_agenda has not been called
NoAgendaCall ==
    [called |-> FALSE, servers |-> {}, weather |-> SubcallRaised, events |-> SubcallRaised,
     tasks |-> SubcallRaised, agenda |-> [weather |-> <<"None">>, events |-> <<>>, tasks |-> <<>>],
     calls |-> <<>>, raised |-> FALSE]

\* The application calls generate_agenda
CallGenerateAgenda ==
    /\ \E servers \in SUBSET ServerTypes, weather \in WeatherOutcomes,
          events \in EventsOutcomes, tasks \in TasksOutcomes :
        \E done \in {generate_agenda(servers, weather, events, tasks)} :
            agenda_call' = [called |-> TRUE, servers |-> servers, weather |-> weather,
                            events |-> events, tasks |-> tasks, agenda |-> done.agenda,
                            calls |-> done.calls, raised |-> done.raised]
    /\ UNCHANGED <<todoVars, laterVars>>
    /\ ServiceFrame

(***************************************************************************)
(* server/todo_server.py, server/weather_server.py and                     *)
(* server/calendar_server.py: the InvokeMethod of TodoServer, WeatherServer *)
(* and CalendarServer, which is the same text in the three files.  Each    *)
(* server has its own AuthProvider, with the same registered clients.  The *)
(* payload of a request is held decoded, or is one that json.loads         *)
(* refuses.                                                                *)
(***************************************************************************)
\* register_methods of the three servers
ServiceMethods ==
    [todo |-> [add_task |-> "write", get_tasks |-> "read", update_task |-> "write",
               delete_task |-> "write", get_service_info |-> "read"],
     weather |-> [get_current_weather |-> "read", get_forecast |-> "read",
                  get_service_info |-> "read"],
     calendar |-> [add_event |-> "write", get_events |-> "read",
                   get_today_events |-> "read", get_service_info |-> "read",
                   update_event |-> "write"]]

\* The methods requested: those of generate_agenda, add_task, and one that
\* no server registers
ServiceRequests ==
    [todo |-> {"add_task", "get_tasks", "nonexistent"},
     weather |-> {"get_current_weather", "nonexistent"},
     calendar |-> {"get_today_events", "nonexistent"}]

\* The parameters sent with a method: an undecodable payload, or a dict
ServiceParams(method_id) ==
    {None, Some([title |-> Absent, priority |-> Absent, due_date |-> Absent])}
    \cup IF method_id = "add_task"
         THEN {Some([title |-> Str("a"), priority |-> Absent, due_date |-> Absent])}
         ELSE {}

\* A signature made for the request with the key sent, or one off by a byte
ServiceSignatures(method_id, client_id, api_key, timestamp) ==
    {create_signature(api_key, client_id, method_id, timestamp),
     TamperedHex(api_key, SignedMessage(method_id, client_id, timestamp))}

\* The "try" block: json.loads, then the handler.  rows is the tasks table.
ServiceExecute(method_id, client_id, params, rows) ==
    IF ~params.some
    THEN [status |-> "ERROR", handler |-> "", rows |-> rows, added |-> FALSE]
    ELSE IF method_id = "add_task"
    THEN LET done == add_task(rows, params.val, client_id)
         IN  [status |-> "SUCCESS", handler |-> method_id, rows |-> done.rows,
              added |-> done.result = "success"]
    ELSE [status |-> "SUCCESS", handler |-> method_id, rows |-> rows, added |-> FALSE]

\* InvokeMethod of a service server: authenticate, method lookup,
\* has_permission, then the "try" block
ServiceDispatch(server, method_id, client_id, api_key, params, rows) ==
    IF ~authenticate(client_id, api_key).some
    THEN [status |-> "UNAUTHORIZED", handler |-> "", rows |-> rows, added |-> FALSE]
    ELSE IF method_id \notin DOMAIN ServiceMethods[server]
    THEN [status |-> "NOT_FOUND", handler |-> "", rows |-> rows, added |-> FALSE]
    ELSE IF ~has_permission(client_id, ServiceMethods[server][method_id])
    THEN [status |-> "UNAUTHORIZED", handler |-> "", rows |-> rows, added |-> FALSE]
    ELSE ServiceExecute(method_id, client_id, params, rows)

\* No request has been served.  "handler" is the handler that ran, if one
\* did.
NoServiceCall ==
    [called |-> FALSE, server |-> "", method_id |-> "", client_id |-> "",
     timestamp |-> 0, signature |-> "", status |-> "", handler |-> ""]

\* A service server serves an InvokeMethod request
ServiceInvokeMethod ==
    /\ \E server \in ServerTypes, client_id \in ClientIds, api_key \in RequestKeys,
          offset \in RequestOffsets :
        \E method_id \in ServiceRequests[server] :
          \E params \in ServiceParams(method_id),
             signature \in ServiceSignatures(method_id, client_id, api_key, now + offset) :
            \E served \in {ServiceDispatch(server, method_id, client_id, api_key,
                                            params, todo_tasks)} :
                /\ Len(served.rows) <= MaxTasks
                /\ todo_tasks' = served.rows
                /\ todo_added' = IF served.added
                                  THEN Append(todo_added, [client_id |-> client_id,
                                                           params |-> params.val])
                                  ELSE todo_added
                /\ service_call' = [called |-> TRUE, server |-> server,
                                    method_id |-> method_id, client_id |-> client_id,
                                    timestamp |-> now + offset, signature |-> signature,
                                    status |-> served.status, handler |-> served.handler]
    /\ UNCHANGED <<todo_call, agenda_call, backoff_walk, closed, lockVars>>
    /\ ServiceFrame

(***************************************************************************)
(* client/client.py: the waits of reconnect(), lines 114-126, for every    *)
(* reconnect_attempts given to the constructor.  Times are in hundredths   *)
(* of a second.                                                            *)
(***************************************************************************)
\* The largest reconnect_attempts given to the constructor
MaxReconnectAttempts == 14

\* A variant of the backoff without its cap
Backoff_uncapped(attempt) == 2 ^ attempt

\* backoff = min(2 ** attempt, 60), in seconds
Backoff(attempt) == Min(2 ^ attempt, MaxBackoff)

\* jitter = backoff * 0.1 * (2 * (0.5 - 0.5)): backoff * 0.1 is backoff * 10
\* hundredths, and 0.5 is 5 tenths
Jitter(backoff) == ((backoff * 10) * (2 * (5 - 5))) \div 10

\* sleep_time = backoff + jitter
SleepTime(attempt) == Backoff(attempt) * 100 + Jitter(Backoff(attempt))

\* reconnect() is not running.  "attempt" is the value of the loop variable,
\* "sleep_time" the last wait and "previous" the one before it.
NoWalk ==
    [pc |-> "idle", reconnect_attempts |-> 0, attempt |-> 0, sleep_time |-> 0,
     previous |-> 0]

\* The connector and the services stay as they are
WalkFrame ==
    /\ UNCHANGED <<todoVars, agenda_call, service_call, closed, lockVars>>
    /\ ServiceFrame

\* reconnect() is called on a connector constructed with reconnect_attempts
reconnect_walk_start ==
    /\ backoff_walk.pc = "idle"
    /\ \E reconnect_attempts \in 1..MaxReconnectAttempts :
        backoff_walk' = [NoWalk EXCEPT !.pc = "loop",
                                       !.reconnect_attempts = reconnect_attempts]
    /\ WalkFrame

\* Lines 117-126: connect() fails, the wait is computed and slept
reconnect_walk_waits ==
    /\ backoff_walk.pc = "loop"
    /\ backoff_walk.attempt < backoff_walk.reconnect_attempts
    /\ backoff_walk' = [backoff_walk EXCEPT !.attempt = @ + 1,
                                            !.sleep_time = SleepTime(backoff_walk.attempt),
                                            !.previous = backoff_walk.sleep_time]
    /\ WalkFrame

\* Lines 117-118 and 128-129: connect() succeeds, or the attempts are used up
reconnect_walk_returns ==
    /\ backoff_walk.pc = "loop"
    /\ backoff_walk' = NoWalk
    /\ WalkFrame

(***************************************************************************)
(* client/client.py: close(), called by the thread that owns the           *)
(* connector, beside the listener thread.  connect() has bound             *)
(* self.channel in the constructor, so the test of line 296 succeeds.      *)
(***************************************************************************)
close ==
    /\ subscribers[Foreground].pc = "idle"
    /\ ~closed
    /\ closed' = TRUE
    /\ connected' = FALSE
    /\ UNCHANGED <<breakerVars, invocation, connection, listenerVars, fleetVars, raceVars,
                   todoVars, agenda_call, service_call, backoff_walk, lockVars>>
    /\ ServerUnaffected

(***************************************************************************)
(* server/function_handlers.py: DistributedFunctions.acquire_lock and      *)
(* release_lock, statement by statement, on the threads of the server's    *)
(* pool.  No statement takes a lock.  The clock counts the periods of the  *)
(* sleep of line 168; timeout and ttl are given in the same unit.          *)
(***************************************************************************)
\* Periods that the clock advances
MaxLockTime == 3

LockResources == {"r1"}

\* params.get('timeout', 5.0) and params.get('ttl', 30.0), as the callers
\* give them
LockTimeouts == {1, 2}

LockTtls == {2}

\* The client that each thread serves
LockClient(t) == IF t = "t1" THEN "client1" ELSE "client2"

\* hashlib.md5(f"{resource_id}:{time.time()}:{client_id}").hexdigest(), as an
\* injective function of the three
LockId(resource_id, time, client_id) == <<resource_id, time, client_id>>

\* A thread that runs neither method.  "result" is the status of its last
\* call, "lock_id" and "acquired" what a successful acquire_lock returned.
IdleLocker ==
    [pc |-> "idle", resource_id |-> "", timeout |-> 0, ttl |-> 0, start_time |-> 0,
     result |-> "none", lock_id |-> <<>>, acquired |-> 0]

\* The rest of the program stays as it is
LockFrame ==
    /\ UNCHANGED <<todoVars, agenda_call, service_call, backoff_walk, closed>>
    /\ ServiceFrame

\* Time passes on the server
LockTimePasses ==
    /\ lock_clock < StartTime + MaxLockTime
    /\ lock_clock' = lock_clock + 1
    /\ UNCHANGED <<locks, lockers>>
    /\ LockFrame

\* acquire_lock, lines 126-134: the parameters are read, start_time is taken
acquire_lock(t) ==
    /\ lockers[t].pc = "idle"
    /\ lockers[t].result # "success"
    /\ \E resource_id \in LockResources, timeout \in LockTimeouts, ttl \in LockTtls :
        lockers' = [lockers EXCEPT ![t] =
                       [IdleLocker EXCEPT !.pc = "while", !.resource_id = resource_id,
                                          !.timeout = timeout, !.ttl = ttl,
                                          !.start_time = lock_clock]]
    /\ UNCHANGED <<locks, lock_clock>>
    /\ LockFrame

\* Line 137, "while time.time() - start_time < timeout", and the return of
\* lines 171-175 when it fails
acquire_lock_while(t) ==
    /\ lockers[t].pc = "while"
    /\ lockers' = [lockers EXCEPT ![t] =
                      IF lock_clock - @.start_time < @.timeout
                      THEN [@ EXCEPT !.pc = "if"]
                      ELSE [IdleLocker EXCEPT !.result = "error"]]
    /\ UNCHANGED <<locks, lock_clock>>
    /\ LockFrame

\* Lines 139-142: is the resource free, or its lock expired?
acquire_lock_if(t) ==
    /\ lockers[t].pc = "if"
    /\ LET resource_id == lockers[t].resource_id
           available == \/ resource_id \notin DOMAIN locks
                        \/ lock_clock - locks[resource_id].timestamp
                              > locks[resource_id].ttl
       IN  lockers' = [lockers EXCEPT ![t].pc = IF available THEN "take" ELSE "sleep"]
    /\ UNCHANGED <<locks, lock_clock>>
    /\ LockFrame

\* Lines 144-165: the lock is written and returned
acquire_lock_take(t) ==
    /\ lockers[t].pc = "take"
    /\ LET resource_id == lockers[t].resource_id
           lock_id == LockId(resource_id, lock_clock, LockClient(t))
       IN  /\ locks' = [r \in DOMAIN locks \cup {resource_id} |->
                           IF r = resource_id
                           THEN [lock_id |-> lock_id, client_id |-> LockClient(t),
                                 timestamp |-> lock_clock, ttl |-> lockers[t].ttl]
                           ELSE locks[r]]
           /\ lockers' = [lockers EXCEPT ![t] =
                              [@ EXCEPT !.pc = "idle", !.result = "success",
                                        !.lock_id = lock_id, !.acquired = lock_clock]]
    /\ UNCHANGED lock_clock
    /\ LockFrame

\* Line 168: time.sleep(0.2)
acquire_lock_sleep(t) ==
    /\ lockers[t].pc = "sleep"
    /\ lock_clock < StartTime + MaxLockTime
    /\ lock_clock' = lock_clock + 1
    /\ lockers' = [lockers EXCEPT ![t].pc = "while"]
    /\ UNCHANGED locks
    /\ LockFrame

\* release_lock, called by the client of t with the lock_id it was given
release_lock(t) ==
    /\ lockers[t].pc = "idle"
    /\ lockers[t].result = "success"
    /\ LET resource_id == lockers[t].resource_id
           held == /\ resource_id \in DOMAIN locks
                   /\ locks[resource_id].lock_id = lockers[t].lock_id
                   /\ locks[resource_id].client_id = LockClient(t)
       IN  /\ locks' = IF held
                       THEN [r \in DOMAIN locks \ {resource_id} |-> locks[r]]
                       ELSE locks
           /\ lockers' = [lockers EXCEPT ![t] =
                              [IdleLocker EXCEPT !.result = IF held THEN "released"
                                                           ELSE "error"]]
    /\ UNCHANGED lock_clock
    /\ LockFrame

(***************************************************************************)
(* Specifications.                                                         *)
(***************************************************************************)
\* DistributedServer.__init__ and _register_builtin_methods
Init ==
    /\ now = StartTime
    /\ methods = [m \in {"ping", "echo"} |->
                    [handler |-> IF m = "ping" THEN "_handle_ping" ELSE "_handle_echo",
                     required_permission |-> "read"]]
    /\ event_subscribers = <<>>
    /\ auth_call = NoAuthCall
    /\ request = NoRequest
    /\ response = NoResponse
    /\ handler_call = NoHandlerCall
    /\ resources = <<>>
    /\ discovery = NoDiscovery
    /\ pattern_call = NoPatternCall
    /\ streams = <<>>
    /\ broadcast = NoBroadcast
    /\ client_time = StartTime
    /\ circuit_breaker = NewCircuitBreaker
    /\ callers = [t \in Threads |-> IdleCaller]
    /\ consecutive_failures = 0
    /\ connected = FALSE
    /\ invocation = NoInvocation
    /\ connection = NoConnection
    /\ event_handlers = <<>>
    /\ event_listener_thread = 0
    /\ listeners = <<>>
    /\ subscribers = [t \in Threads |-> IdleSubscriber]
    /\ breakers = <<>>
    /\ connectors = <<>>
    /\ last_call = NoCall
    /\ channels = <<>>
    /\ stub = 0
    /\ reconnecting = [t \in RaceThreads |-> Outside]
    /\ todo_tasks = <<>>
    /\ todo_added = <<>>
    /\ todo_call = NoTodoCall
    /\ agenda_call = NoAgendaCall
    /\ service_call = NoServiceCall
    /\ backoff_walk = NoWalk
    /\ closed = FALSE
    /\ locks = <<>>
    /\ lockers = [t \in Threads |-> IdleLocker]
    /\ lock_clock = StartTime

NextAuth ==
    \/ Tick
    \/ CallAuthenticate
    \/ CallValidateSignature
    \/ CallHasPermission

SpecAuth == Init /\ [][NextAuth]_vars

Next ==
    \/ register_method
    \/ SubscribeToEvents
    \/ SubscriptionEnded
    \/ InvokeMethod

Spec == Init /\ [][Next]_vars

NextDiscover ==
    \/ register_method
    \/ register_resource
    \/ DiscoverCapabilities

SpecDiscover == Init /\ [][NextDiscover]_vars

NextBroadcast ==
    \/ SubscribeToEvents_register
    \/ StreamBreaks
    \/ StreamCloses
    \/ SubscribeToEvents_finally
    \/ broadcast_event_start
    \/ broadcast_event_try
    \/ broadcast_event_except_test
    \/ broadcast_event_except_del
    \/ broadcast_event_return

SpecBroadcast == Init /\ [][NextBroadcast]_vars

NextBreaker ==
    \/ ClientTimePasses
    \/ execute_enter
    \/ execute_returns
    \/ execute_raises

SpecBreaker == Init /\ [][NextBreaker]_vars

NextClient ==
    \/ ClientTimePasses
    \/ invoke_method

NextConnect ==
    \/ ClientTimePasses
    \/ connect
    \/ reconnect_start
    \/ reconnect_attempt
    \/ reconnect_sleep
    \/ reconnect_gives_up

\* subscribe_to_events called by thread t
Subscribes(t) ==
    \/ subscribe_to_events(t)
    \/ subscribe_reconnect_start(t)
    \/ subscribe_reconnect(t)
    \/ subscribe_register(t)
    \/ subscribe_check(t)
    \/ subscribe_start(t)

\* The listener threads started so far
ListenerThreads == 1..Len(listeners)

\* The owner calls subscribe_to_events as long as it has not closed
subscribes_until_close ==
    /\ ~closed
    /\ Subscribes(Foreground)

NextSubscribe ==
    \/ \E t \in Threads : Subscribes(t)
    \/ \E i \in ListenerThreads : listener_while(i)
    \/ \E i \in ListenerThreads : listener_stream_ends(i)
    \/ \E i \in ListenerThreads : listener_stream_fails(i)
    \/ \E i \in ListenerThreads : listener_reconnect(i)

SpecSubscribe == Init /\ [][NextSubscribe]_vars

NextListener ==
    \/ Subscribes(Foreground)
    \/ \E i \in ListenerThreads : listener_while(i)
    \/ \E i \in ListenerThreads : listener_stream_ends(i)
    \/ \E i \in ListenerThreads : listener_stream_fails(i)
    \/ \E i \in ListenerThreads : listener_reconnect(i)
    \/ \E i \in ListenerThreads : listener_event(i)
    \/ \E i \in ListenerThreads : listener_deliver(i)
    \/ \E i \in ListenerThreads : listener_sleep(i)

SpecListener == Init /\ [][NextListener]_vars

NextFleet ==
    \/ ClientTimePasses
    \/ new_connector
    \/ \E c \in 1..Len(connectors) : connector_invoke_method(c)

SpecFleet == Init /\ [][NextFleet]_vars

NextRace ==
    \E t \in RaceThreads :
        \/ race_reconnect(t)
        \/ race_connect_channel(t)
        \/ race_health_check(t)
        \/ race_health_reply(t)
        \/ race_sleep(t)
        \/ race_gives_up(t)

SpecRace == Init /\ [][NextRace]_vars

NextTodo ==
    \/ CallAddTask
    \/ CallGetTasks

SpecTodo == Init /\ [][NextTodo]_vars

NextAgenda == CallGenerateAgenda

SpecAgenda == Init /\ [][NextAgenda]_vars

NextServices == ServiceInvokeMethod

SpecServices == Init /\ [][NextServices]_vars

NextBackoff ==
    \/ reconnect_walk_start
    \/ reconnect_walk_waits
    \/ reconnect_walk_returns

SpecBackoff == Init /\ [][NextBackoff]_vars

NextClose ==
    \/ subscribes_until_close
    \/ close
    \/ \E i \in ListenerThreads : listener_while(i)
    \/ \E i \in ListenerThreads : listener_stream_ends(i)
    \/ \E i \in ListenerThreads : listener_stream_fails(i)
    \/ \E i \in ListenerThreads : listener_reconnect(i)

SpecClose == Init /\ [][NextClose]_vars

NextLocks ==
    \/ LockTimePasses
    \/ \E t \in Threads : acquire_lock(t)
    \/ \E t \in Threads : acquire_lock_while(t)
    \/ \E t \in Threads : acquire_lock_if(t)
    \/ \E t \in Threads : acquire_lock_take(t)
    \/ \E t \in Threads : acquire_lock_sleep(t)
    \/ \E t \in Threads : release_lock(t)

SpecLocks == Init /\ [][NextLocks]_vars

SpecConnect == Init /\ [][NextConnect]_vars

\* A thread inside reconnect() goes on running: its HealthCheck RPC returns
\* or raises and its sleep ends.
SpecConnectFair ==
    /\ SpecConnect
    /\ WF_vars(reconnect_attempt)
    /\ WF_vars(reconnect_sleep)
    /\ WF_vars(reconnect_gives_up)

SpecClient == Init /\ [][NextClient]_vars

NextPattern == CallPatternMatches

SpecPattern == Init /\ [][NextPattern]_vars

(***************************************************************************)
(* What the specification of the system calls valid: the notions the       *)
(* properties below are stated with.                                       *)
(***************************************************************************)
\* (client_id, api_key) is a registered client with its exactly matching key.
ValidPair(client_id, api_key) ==
    Registered(client_id) /\ api_key = api_keys[client_id].key

RegisteredPermissions(client_id) ==
    IF Registered(client_id) THEN Range(api_keys[client_id].permissions) ELSE {}

\* signature is HMAC-SHA256(api_key of client_id, "{method_id}:{client_id}:{timestamp}")
CorrectSignature(client_id, method_id, timestamp, signature) ==
    /\ Registered(client_id)
    /\ signature = HmacSha256Hex(api_keys[client_id].key,
                                 SignedMessage(method_id, client_id, timestamp))

\* A step that serves a request.
InvokeStep == <<request, response, handler_call>>' # <<request, response, handler_call>>

(***************************************************************************)
(* Properties of AuthProvider, checked under SpecAuth.                     *)
(***************************************************************************)
\* C1: authenticate fails closed: for every (client_id, api_key) that is not
\* a registered client with its exactly matching key (unknown client,
\* mismatched key, empty or absent key) it returns None.
C1_AuthenticateFailsClosed ==
    (auth_call.op = "authenticate" /\ ~ValidPair(auth_call.client_id, auth_call.api_key))
        => auth_call.permissions = None

\* C2: for every registered client presented with its exact registered key,
\* authenticate returns exactly that client's registered permission set.
C2_AuthenticateReturnsRegisteredPermissions ==
    (auth_call.op = "authenticate" /\ ValidPair(auth_call.client_id, auth_call.api_key))
        => /\ auth_call.permissions.some
           /\ Range(auth_call.permissions.val) = RegisteredPermissions(auth_call.client_id)
           /\ (auth_call.client_id = "client2"
                  => Range(auth_call.permissions.val) = {"read"})

C2_Witness ==
    /\ auth_call.op = "authenticate"
    /\ auth_call.client_id = "client2"
    /\ auth_call.api_key = "sk_client2_67890fghij"
    /\ auth_call.permissions = Some(<<"read">>)

\* C3: validate_signature returns false for every signature that is not the
\* HMAC-SHA256 of the canonical message under the client's registered key,
\* whatever the timestamp, the empty signature and a client without a
\* registered key included.
C3_WrongSignatureRejected ==
    (auth_call.op = "validate_signature"
        /\ ~CorrectSignature(auth_call.client_id, auth_call.method_id,
                             auth_call.timestamp, auth_call.signature))
        => auth_call.result = FALSE

\* C4: validate_signature returns false whenever |now - timestamp| > 300,
\* even when the signature is the correct HMAC for that timestamp.
C4_StaleTimestampRejected ==
    (auth_call.op = "validate_signature"
        /\ Abs(auth_call.current_time - auth_call.timestamp) > ReplayWindow)
        => auth_call.result = FALSE

\* C5: has_permission(client_id, p) is true if and only if p is in the
\* registered permission set of client_id; for a client without a registered
\* entry it is false for every p.
C5_HasPermissionIffRegistered ==
    auth_call.op = "has_permission"
        => (auth_call.result
               <=> auth_call.required_permission \in RegisteredPermissions(auth_call.client_id))

(***************************************************************************)
(* Properties of DistributedServer.InvokeMethod, checked under Spec.       *)
(***************************************************************************)
\* C6: a handler is run only for a request that passed all four gates: the
\* pair authenticated as a registered client, the signature validated (the
\* correct HMAC, timestamp within the window), the method is registered and
\* the client holds the method's required permission.
C6_HandlerOnlyAfterAllGates ==
    handler_call.called
        => /\ ValidPair(request.client_id, request.api_key)
           /\ CorrectSignature(request.client_id, request.method_id,
                               request.timestamp, request.signature)
           /\ Abs(now - request.timestamp) <= ReplayWindow
           /\ request.method_id \in DOMAIN methods
           /\ methods[request.method_id].required_permission
                 \in RegisteredPermissions(request.client_id)

\* C7: the status is decided by the first failing gate in the order
\* authenticate, validate_signature, method lookup, has_permission.  In
\* particular a request with a registered pair and a correct, fresh signature
\* for an unregistered method gets NOT_FOUND whatever the client's
\* permissions, and a request that authenticate refuses gets UNAUTHORIZED
\* even if its method is unregistered.
C7_StatusByFirstFailingGate ==
    [][InvokeStep =>
        LET req == request'
            resp == response'
        IN  /\ resp.kind = "MethodResponse" =>
                 IF ~authenticate(req.client_id, req.api_key).some
                 THEN resp.status = "UNAUTHORIZED"
                      /\ resp.error_message = "Authentication failed"
                 ELSE IF ~validate_signature(req.client_id, req.method_id,
                                             req.timestamp, req.signature, now)
                 THEN resp.status = "UNAUTHORIZED"
                      /\ resp.error_message = "Invalid request signature"
                 ELSE IF req.method_id \notin DOMAIN methods
                 THEN resp.status = "NOT_FOUND"
                 ELSE IF ~has_permission(req.client_id,
                                         methods[req.method_id].required_permission)
                 THEN resp.status = "UNAUTHORIZED"
                      /\ resp.error_message # "Authentication failed"
                      /\ resp.error_message # "Invalid request signature"
                 ELSE resp.status \in {"SUCCESS", "ERROR"}
            /\ (/\ ValidPair(req.client_id, req.api_key)
                /\ CorrectSignature(req.client_id, req.method_id,
                                    req.timestamp, req.signature)
                /\ Abs(now - req.timestamp) < ReplayWindow
                /\ req.method_id \notin DOMAIN methods)
                  => resp.kind = "MethodResponse" /\ resp.status = "NOT_FOUND"
            /\ (/\ req.api_key # ""
                /\ ~ValidPair(req.client_id, req.api_key))
                  => resp.kind = "MethodResponse" /\ resp.status = "UNAUTHORIZED"
    ]_vars

\* client2 holds only read; "multiply" is not registered yet, and the answer
\* is NOT_FOUND.
C7_Witness ==
    /\ request.client_id = "client2"
    /\ ValidPair(request.client_id, request.api_key)
    /\ CorrectSignature(request.client_id, request.method_id,
                        request.timestamp, request.signature)
    /\ request.method_id = "multiply"
    /\ "multiply" \notin DOMAIN methods
    /\ response.status = "NOT_FOUND"

\* C8: for a method registered with required_permission "write", a correctly
\* authenticated and signed request of a client whose permissions contain
\* write runs the handler and returns SUCCESS with the handler's result
\* (ERROR only if the parameters do not decode or the handler raises); the
\* same request of a client whose permissions are only {read} returns
\* UNAUTHORIZED with a message naming the permission, and no handler runs.
C8_WriteMethodNeedsWrite ==
    [][InvokeStep =>
        LET req == request'
            resp == response'
            call == handler_call'
        IN  (/\ req.method_id \in DOMAIN methods
             /\ methods[req.method_id].required_permission = "write"
             /\ ValidPair(req.client_id, req.api_key)
             /\ CorrectSignature(req.client_id, req.method_id,
                                 req.timestamp, req.signature)
             /\ Abs(now - req.timestamp) < ReplayWindow)
            => /\ resp.kind = "MethodResponse"
               /\ "write" \in RegisteredPermissions(req.client_id)
                    => /\ call.called <=> req.parameters # MalformedPayload
                       /\ (call.called /\ ~call.outcome.raised)
                            => /\ resp.status = "SUCCESS"
                               /\ resp.result = JsonDumps(call.outcome.value)
                       /\ req.parameters = ObjectPayload
                            => /\ resp.status = "SUCCESS"
                               /\ resp.result = "{\"result\": 6}"
                       /\ resp.status \in {"SUCCESS", "ERROR"}
               /\ RegisteredPermissions(req.client_id) = {"read"}
                    => /\ resp.status = "UNAUTHORIZED"
                       /\ resp.error_message = "Permission denied: write required"
                       /\ ~call.called
    ]_vars

C8_Witness ==
    /\ request.client_id = "client1"
    /\ ValidPair(request.client_id, request.api_key)
    /\ CorrectSignature(request.client_id, request.method_id,
                        request.timestamp, request.signature)
    /\ request.method_id = "multiply"
    /\ request.parameters = ObjectPayload
    /\ handler_call.called
    /\ response.status = "SUCCESS"
    /\ response.result = "{\"result\": 6}"

\* C9: when a handler raises, InvokeMethod returns a MethodResponse with
\* status ERROR carrying the exception's message, the method registry and
\* the subscriber table are unchanged, and the next request is served
\* normally: a well-formed echo request of client1 gets SUCCESS.
C9_HandlerExceptionIsReported ==
    [][InvokeStep =>
        /\ (handler_call'.called /\ handler_call'.outcome.raised)
              => /\ response'.kind = "MethodResponse"
                 /\ response'.status = "ERROR"
                 /\ response'.error_message
                       = "Error executing method: " \o handler_call'.outcome.message
                 /\ methods' = methods
                 /\ event_subscribers' = event_subscribers
        /\ (/\ handler_call.called /\ handler_call.outcome.raised
            /\ request'.method_id = "echo"
            /\ request'.parameters = ObjectPayload
            /\ ValidPair(request'.client_id, request'.api_key)
            /\ CorrectSignature(request'.client_id, request'.method_id,
                                request'.timestamp, request'.signature)
            /\ Abs(now - request'.timestamp) < ReplayWindow)
              => /\ response'.status = "SUCCESS"
                 /\ response'.result = ObjectPayload
    ]_vars

\* "multiply" raised on a JSON array while a subscription was registered.
C9_Witness ==
    /\ handler_call.called
    /\ handler_call.outcome.raised
    /\ request.method_id = "multiply"
    /\ response.status = "ERROR"
    /\ response.error_message = "Error executing method: 'list' object has no attribute 'get'"
    /\ DOMAIN event_subscribers # {}

\* C10: every MethodResponse of InvokeMethod has status SUCCESS if and only if
\* its result is populated and its error_message is empty; for ERROR,
\* NOT_FOUND and UNAUTHORIZED the result is empty and the error_message is not.
C10_ResponseShape ==
    response.kind = "MethodResponse"
        => /\ response.status \in {"SUCCESS", "ERROR", "NOT_FOUND", "UNAUTHORIZED"}
           /\ response.status = "SUCCESS"
                 <=> (response.result # "" /\ response.error_message = "")
           /\ response.status # "SUCCESS"
                 => (response.result = "" /\ response.error_message # "")

C10_Witness ==
    /\ response.kind = "MethodResponse"
    /\ response.status = "ERROR"
    /\ response.result = ""
    /\ response.error_message # ""
    /\ request.parameters = MalformedPayload

(***************************************************************************)
(* Properties of DiscoverCapabilities, checked under SpecDiscover.         *)
(***************************************************************************)
\* A step that serves a discovery request.
DiscoverStep == discovery' # discovery

\* C11: DiscoverCapabilities returns to an authenticated caller (a registered
\* client with its key) exactly the registered methods and resources whose
\* required_permission the caller holds, none omitted and none extra, and
\* no capability at all to a caller that fails authentication.
C11_DiscoveryExact ==
    [][DiscoverStep =>
        LET d == discovery'
            held == RegisteredPermissions(d.client_id)
        IN  IF ValidPair(d.client_id, d.api_key)
            THEN /\ ~d.aborted
                 /\ d.capabilities =
                       {Capability(m, "METHOD", methods[m].required_permission) :
                           m \in {x \in DOMAIN methods :
                                     methods[x].required_permission \in held}}
                       \cup
                       {Capability(r, "RESOURCE", resources[r].required_permission) :
                           r \in {x \in DOMAIN resources :
                                     resources[x].required_permission \in held}}
            ELSE d.capabilities = {}
    ]_vars

(***************************************************************************)
(* Properties of _pattern_matches, checked under SpecPattern.              *)
(***************************************************************************)
\* C12: the server's and the client's _pattern_matches are the same function:
\* "*" matches every event_type; a pattern ending in "*" matches exactly the
\* event_types that start with the pattern minus its trailing "*" ("sys.*"
\* matches "sys.start" and not "system.start"); any other pattern matches
\* only the identical string.
C12_PatternMatching ==
    pattern_call.called =>
        LET e == pattern_call.event_type
            p == pattern_call.pattern
            n == Len(p) - 1
        IN  /\ pattern_call.server = pattern_call.client
            /\ p = <<"*">> => pattern_call.server
            /\ (p # <<"*">> /\ Len(p) > 0 /\ p[Len(p)] = "*")
                  => (pattern_call.server
                        <=> (Len(e) >= n /\ \A i \in 1..n : e[i] = p[i]))
            /\ (Len(p) = 0 \/ p[Len(p)] # "*")
                  => (pattern_call.server <=> e = p)
            /\ (p = SysStar /\ e = SysStart) => pattern_call.server
            /\ (p = SysStar /\ e = SystemStart) => ~pattern_call.server

C12_Witness ==
    /\ pattern_call.called
    /\ pattern_call.pattern = SysStar
    /\ pattern_call.event_type = SystemStart
    /\ ~pattern_call.server
    /\ ~pattern_call.client

(***************************************************************************)
(* Properties of broadcast_event, checked under SpecBroadcast.             *)
(***************************************************************************)
\* C13: a delivery failure for one subscription (closed stream or write
\* error) never prevents delivery to the others: broadcast_event does not
\* raise, and when it is over every subscription of its snapshot whose
\* pattern matches the event and whose stream is open has received the event.
C13_FailureDoesNotBlockOthers ==
    /\ broadcast.pc # "raised"
    /\ broadcast.pc \in {"returned", "raised"}
          => \A i \in DOMAIN broadcast.snapshot :
                LET subscription == broadcast.snapshot[i]
                IN  (/\ server_pattern_matches(broadcast.event_type, subscription.pattern)
                     /\ streams[subscription.context].state = "open")
                       => streams[subscription.context].received

BroadcastStep == broadcast' # broadcast

\* C14: after broadcast_event returns, no subscription remains in
\* event_subscribers whose pattern matched the event and whose stream was
\* closed or raised on write during that broadcast; and broadcast_event
\* leaves in place every subscription whose pattern does not match the event
\* and every matching subscription it has written successfully.
C14_BroadcastCleanupFrame ==
    /\ [](broadcast.pc = "returned"
            => \A s \in DOMAIN event_subscribers :
                  event_subscribers[s].context \notin broadcast.failed)
    /\ [][BroadcastStep =>
            \A s \in DOMAIN event_subscribers :
               LET subscription == event_subscribers[s]
                   matched == server_pattern_matches(broadcast'.event_type,
                                                     subscription.pattern)
               IN  (~matched \/ streams'[subscription.context].received)
                      => /\ s \in DOMAIN event_subscribers'
                         /\ event_subscribers'[s] = subscription
       ]_vars

(***************************************************************************)
(* Properties of CircuitBreaker, checked under SpecBreaker.                *)
(***************************************************************************)
Finishes(t) == callers[t].pc = "running" /\ callers'[t].pc = "idle"

\* C15: the breaker moves from CLOSED to OPEN only after failure_threshold
\* consecutive failed calls, and a successful call in CLOSED state restarts
\* the count.
C15_OpensOnConsecutiveFailures ==
    [][/\ (circuit_breaker.state = "CLOSED" /\ circuit_breaker'.state = "OPEN")
            => consecutive_failures' >= FailureThreshold
       /\ \A t \in Threads :
            (/\ Finishes(t)
             /\ callers'[t].outcome = "returned"
             /\ circuit_breaker.state = "CLOSED")
               => circuit_breaker'.failure_count = 0
    ]_vars

\* C17: once reset_timeout has elapsed in OPEN state exactly one trial call
\* is let through: no call is executed that entered while a trial call was
\* in flight.
C17_OneTrialAtATime ==
    \A t \in Threads : ~callers[t].beside_trial

\* C18: a trial call that succeeds leaves the breaker CLOSED with
\* failure_count 0; a trial call that fails leaves it OPEN with
\* last_failure_time set to the time of the failure; and a call made in OPEN
\* state no later than reset_timeout after last_failure_time is rejected.
C18_TrialOutcome ==
    [][\A t \in Threads :
         /\ (Finishes(t) /\ callers[t].trial /\ callers'[t].outcome = "returned")
               => /\ circuit_breaker'.state = "CLOSED"
                  /\ circuit_breaker'.failure_count = 0
         /\ (Finishes(t) /\ callers[t].trial /\ callers'[t].outcome = "raised")
               => /\ circuit_breaker'.state = "OPEN"
                  /\ circuit_breaker'.last_failure_time = client_time
         /\ (/\ callers[t].pc = "idle"
             /\ callers'[t] # callers[t]
             /\ circuit_breaker.state = "OPEN"
             /\ client_time - circuit_breaker.last_failure_time <= ResetTimeout)
               => /\ callers'[t].outcome = "rejected"
                  /\ callers'[t].pc = "idle"
    ]_vars

(***************************************************************************)
(* Properties of DistributedClient.invoke_method, checked under            *)
(* SpecClient.                                                             *)
(***************************************************************************)
InvokeCall == invocation'.turn # invocation.turn

Count(log, op) == Cardinality({i \in DOMAIN log : log[i] = op})

\* The number of entries of a log before its first InvokeMethod
SendsFrom(log) ==
    IF \A i \in DOMAIN log : log[i] # "InvokeMethod" THEN Len(log)
    ELSE (CHOOSE i \in DOMAIN log :
             /\ log[i] = "InvokeMethod"
             /\ \A j \in 1..(i - 1) : log[j] # "InvokeMethod") - 1

\* The reconnect() calls of a log among its entries from..to
Reconnects(log, from, to) == Cardinality({i \in from..to : log[i] = "reconnect"})

\* C16: while the breaker is OPEN and reset_timeout has not elapsed since the
\* last failure, every invoke_method call fails with the circuit-open error
\* and makes no network attempt: no RPC, no reconnect(), no sleep.
C16_OpenBreakerNoNetwork ==
    [][(/\ InvokeCall
        /\ circuit_breaker.state = "OPEN"
        /\ client_time - circuit_breaker.last_failure_time <= ResetTimeout)
          => /\ invocation'.raised
             /\ invocation'.error = "Circuit breaker is open"
             /\ invocation'.log = <<>>
    ]_vars

\* C19 as stated: during any single invoke_method call the connector performs
\* at most one reconnect() and sends InvokeMethod at most twice, and when the
\* retry fails at transport level the error is raised and nothing further is
\* attempted.
C19_OneReconnectPerCall ==
    [][InvokeCall =>
         /\ Count(invocation'.log, "reconnect") <= 1
         /\ Count(invocation'.log, "InvokeMethod") <= 2
         /\ invocation'.error = "RpcError"
               => /\ invocation'.raised
                  /\ invocation'.log[Len(invocation'.log)] = "InvokeMethod"
    ]_vars

\* C19, amended: during any single invoke_method call the connector performs
\* at most one reconnect() after a transport failure of its send, preceded by
\* at most one reconnect() before the send, made only when the call starts
\* disconnected; it sends InvokeMethod at most twice, the second time only
\* after that reconnect(); and when the retry fails at transport level the
\* error is raised and nothing further is attempted.
C19_RetryBudget ==
    [][InvokeCall =>
         \A log \in {invocation'.log} :
           \A k \in {SendsFrom(log)}, sends \in {Count(log, "InvokeMethod")} :
             /\ Reconnects(log, 1, k) <= (IF connected THEN 0 ELSE 1)
             /\ Reconnects(log, k + 1, Len(log)) <= 1
             /\ sends <= 2
             /\ sends = 2 => Reconnects(log, k + 1, Len(log)) = 1
             /\ invocation'.error = "RpcError"
                   => /\ invocation'.raised
                      /\ sends = 2
                      /\ log[Len(log)] = "InvokeMethod"
    ]_vars

\* A call that began disconnected, reconnected, sent, reconnected again
\* after an RpcError, and whose retry failed with an RpcError too.
C19_Witness ==
    /\ invocation.called
    /\ invocation.raised
    /\ invocation.error = "RpcError"
    /\ Count(invocation.log, "reconnect") = 2
    /\ Count(invocation.log, "InvokeMethod") = 2

\* C20 as stated: when the server answers with UNAUTHORIZED, NOT_FOUND or
\* ERROR the connector raises after exactly one send, without any
\* reconnect(), and its connected flag is true afterwards.
C20_StatusErrorOneSend ==
    [][(InvokeCall /\ invocation'.answer \in StatusErrors)
          => /\ invocation'.raised
             /\ Count(invocation'.log, "InvokeMethod") = 1
             /\ Count(invocation'.log, "reconnect") = 0
             /\ connected'
    ]_vars

\* C20, amended: when the server answers a send with UNAUTHORIZED, NOT_FOUND
\* or ERROR the connector raises that error and does nothing after the
\* answered send: no reconnect(), no further send, and its connected flag
\* is true.  When the call started connected and the answered send is its
\* first, that send is all the call did on the network.
C20_StatusErrorIsTerminal ==
    [][(InvokeCall /\ invocation'.answer \in StatusErrors)
          => \A log \in {invocation'.log} :
                 /\ invocation'.raised
                 /\ invocation'.error = invocation'.answer
                 /\ connected'
                 /\ log[Len(log)] = "InvokeMethod"
                 /\ Count(log, "InvokeMethod") = 2
                       => Reconnects(log, SendsFrom(log) + 1, Len(log)) = 1
                 /\ (connected /\ Count(log, "InvokeMethod") = 1)
                       => log = <<"InvokeMethod">>
    ]_vars

\* A connected client whose only send was answered NOT_FOUND.
C20_Witness ==
    /\ invocation.called
    /\ invocation.raised
    /\ invocation.answer = "NOT_FOUND"
    /\ invocation.log = <<"InvokeMethod">>
    /\ connected

(***************************************************************************)
(* connect() and reconnect() called directly (SpecConnect).                *)
(***************************************************************************)
\* C21: connect() returns True with connected set exactly when the health
\* check answers SERVING; for a NOT_SERVING reply or an exception it returns
\* False and connected is False afterwards, whatever it was before.
C21_ConnectResult ==
    connection.op = "connect"
        => /\ connection.returned \in {"True", "False"}
           /\ connection.health = "SERVING"
                 => connection.returned = "True" /\ connected
           /\ connection.health # "SERVING"
                 => connection.returned = "False" /\ ~connected

\* What C22 says of every state of a reconnect() call: at most
\* reconnect_attempts connect() calls; a successful connect() ends the call
\* with True at once; False is returned after reconnect_attempts failed
\* attempts, with connected False.
ReconnectBounded ==
    connection.op = "reconnect"
        => /\ connection.calls <= ReconnectAttempts
           /\ connection.successes >= 1
                 => /\ connection.pc = "idle"
                    /\ connection.returned = "True"
           /\ connection.returned = "True"
                 => /\ connection.successes = 1
                    /\ connection.health = "SERVING"
                    /\ connected
           /\ connection.returned = "False"
                 => /\ connection.calls = ReconnectAttempts
                    /\ connection.successes = 0
                    /\ ~connected
           /\ connection.pc = "idle" => connection.returned # "none"

Alive == {i \in 1..Len(listeners) : is_alive(i)}

\* C23: whatever subscribe_to_events calls have been made on the connector,
\* from one thread or from several at once, at most one event-listener
\* thread is alive.
C23_AtMostOneListener == Cardinality(Alive) <= 1

\* C24: when the listener's stream fails with a transport error the
\* connector sets connected to False and runs reconnect(); when reconnect()
\* succeeds the listener opens a new stream, and when it fails the listener
\* loop ends.
C24_ListenerRecovers ==
    [][\A i \in 1..Len(listeners) :
          \A before \in {listeners[i]}, after \in {listeners'[i]} :
              /\ (before.pc = "stream" /\ after.pc = "reconnecting") => ~connected'
              /\ (before.pc = "reconnecting" /\ after # before)
                    => \/ after.pc = "while" /\ after.resumed /\ connected'
                       \/ after.pc = "dead" /\ ~connected'
              /\ (before.pc = "while" /\ before.resumed /\ after # before)
                    => after.pc = "stream"
    ]_vars

\* The patterns among handlers that match event_type, in order
RECURSIVE Matching(_, _)
Matching(handlers, event_type) ==
    IF handlers = <<>> THEN <<>>
    ELSE (IF client_pattern_matches(event_type, Head(handlers))
          THEN <<Head(handlers)>> ELSE <<>>) \o Matching(Tail(handlers), event_type)

\* C25: for every event the listener receives, every registered handler
\* whose pattern matches the event type is called once, whether or not
\* handlers raise, and the stream loop neither ends nor starts again.
C25_EveryMatchingHandlerCalled ==
    [][\A i \in 1..Len(listeners) :
          \A before \in {listeners[i]}, after \in {listeners'[i]} :
              (before.pc = "deliver" /\ after # before)
                  => /\ after.pc \in {"deliver", "stream"}
                     /\ after.pc = "stream"
                           => [k \in 1..Len(before.called) |-> before.called[k][1]]
                                 = Matching(before.registered, before.event_type)
    ]_vars

(***************************************************************************)
(* Several connectors (SpecFleet).                                         *)
(***************************************************************************)
\* The breaker of connector c
BreakerOf(c) == breakers[connectors[c].circuit_breaker]

\* C26: an invoke_method call on one connector, whether it succeeds or
\* fails, leaves the state, failure_count and last_failure_time of every
\* other connector's breaker unchanged.
C26_BreakerPerConnector ==
    [][\A a, b \in 1..Len(connectors) :
          (last_call' # last_call /\ last_call'.connector = a /\ b # a)
              => breakers'[connectors'[b].circuit_breaker] = BreakerOf(b)
    ]_vars

\* Failed calls on the first connector have opened its breaker, after the
\* second connector's breaker had counted a failure of its own.
C26_Witness ==
    /\ Len(connectors) = 2
    /\ last_call.connector = 1
    /\ last_call.raised
    /\ BreakerOf(1).state = "OPEN"
    /\ BreakerOf(2).state = "CLOSED"
    /\ BreakerOf(2).failure_count = 1

(***************************************************************************)
(* The listener and a foreground call on one connector (SpecRace).         *)
(***************************************************************************)
\* The threads that are inside reconnect()
InsideReconnect == {t \in RaceThreads : reconnecting[t].pc # "outside"}

\* C27: the listener thread and a foreground invoke_method are never inside
\* reconnect()/connect() of the same connector at the same time, and
\* connected is never True while stub is bound to a channel that failed its
\* health check.
C27_MutualExclusion ==
    /\ Cardinality(InsideReconnect) <= 1
    /\ connected => (stub = 0 \/ channels[stub] # "failed")

(***************************************************************************)
(* The todo service (SpecTodo).                                            *)
(***************************************************************************)
\* The add_task calls of client_id that stored a row, in order
RECURSIVE AddedBy(_, _)
AddedBy(added, client_id) ==
    IF added = <<>> THEN <<>>
    ELSE (IF Head(added).client_id = client_id THEN <<Head(added).params>> ELSE <<>>)
         \o AddedBy(Tail(added), client_id)

\* TRUE iff the two sequences hold the same elements the same number of times
SameElements(s1, s2) ==
    /\ Len(s1) = Len(s2)
    /\ \A i \in DOMAIN s1 : Count(s1, s1[i]) = Count(s2, s1[i])

\* The title, priority and due_date of each task of a get_tasks result
TaskFields(tasks) ==
    [i \in DOMAIN tasks |-> [title |-> tasks[i].title, priority |-> tasks[i].priority,
                              due_date |-> tasks[i].due_date]]

\* C29 as stated: get_tasks for client c returns exactly the tasks that c
\* added, n after n adds, each with the title, priority and due_date given
\* at add time, and no task of another client.
C29_TasksAsGiven ==
    todo_call.op = "get_tasks"
        => \A given \in {AddedBy(todo_added, todo_call.client_id)} :
               /\ \A i \in DOMAIN todo_call.tasks :
                      todo_call.tasks[i].client_id = todo_call.client_id
               /\ SameElements(TaskFields(todo_call.tasks),
                               [i \in DOMAIN given |->
                                   [title |-> given[i].title,
                                    priority |-> Get(given[i].priority, Str("medium")),
                                    due_date |-> Get(given[i].due_date, Null)]])

\* C29, amended: get_tasks for client c returns exactly the tasks that c
\* added, n after n adds, and no task of another client; each has the
\* title, priority and due_date given at add time as a TEXT column stores
\* them (a string or null unchanged, a number as its text), with priority
\* "medium" and due_date null where none was given.
C29_TasksAsStored ==
    todo_call.op = "get_tasks"
        => \A given \in {AddedBy(todo_added, todo_call.client_id)} :
               /\ \A i \in DOMAIN todo_call.tasks :
                      /\ todo_call.tasks[i].client_id = todo_call.client_id
                      /\ ~todo_call.tasks[i].completed
               /\ SameElements(TaskFields(todo_call.tasks),
                               [i \in DOMAIN given |->
                                   [title |-> Text(given[i].title),
                                    priority |-> Text(Get(given[i].priority,
                                                          Str("medium"))),
                                    due_date |-> Text(Get(given[i].due_date, Null))]])

\* Two clients have added one task each; get_tasks gives the first client
\* its own task, whose title was given as the number 5.
C29_Witness ==
    /\ todo_call.op = "get_tasks"
    /\ todo_call.client_id = "c1"
    /\ Len(todo_tasks) = 2
    /\ Len(todo_call.tasks) = 1
    /\ todo_call.tasks[1].title = Str("5")
    /\ \E i \in DOMAIN todo_tasks : todo_tasks[i].client_id = "c2"

\* C30: add_task called without a "title" parameter returns a dict with an
\* "error" entry and stores nothing: the tasks of every client are the same
\* after the call.
C30_MissingTitleStoresNothing ==
    [][(todo_call' # todo_call /\ todo_call'.op = "add_task"
          /\ todo_call'.title = Absent)
          => /\ todo_call'.result = "missing"
             /\ todo_tasks' = todo_tasks
             /\ \A c \in TodoClients :
                    get_tasks(todo_tasks', c) = get_tasks(todo_tasks, c)
    ]_vars

\* A call without title made when the table already holds a task
C30_Witness ==
    /\ todo_call.op = "add_task"
    /\ todo_call.title = Absent
    /\ todo_call.result = "missing"
    /\ Len(todo_tasks) > 0

(***************************************************************************)
(* generate_agenda (SpecAgenda).                                           *)
(***************************************************************************)
\* C28: generate_agenda never raises because of a failing sub-call.  For
\* every combination of sub-calls failing or succeeding, the sub-call of
\* every configured server is made, a section whose sub-call failed keeps
\* its default (weather None, events [], tasks []) and a section whose
\* sub-call succeeded is filled with what it returned.
C28_AgendaSections ==
    agenda_call.called
        => /\ ~agenda_call.raised
           /\ \A server \in agenda_call.servers :
                  \E i \in DOMAIN agenda_call.calls : agenda_call.calls[i] = server
           /\ \/ "weather" \notin agenda_call.servers
              \/ IF agenda_call.weather.raised
                 THEN agenda_call.agenda.weather = <<"None">>
                 ELSE agenda_call.agenda.weather = agenda_call.weather.items
           /\ \/ "calendar" \notin agenda_call.servers
              \/ IF agenda_call.events.raised
                 THEN agenda_call.agenda.events = <<>>
                 ELSE agenda_call.agenda.events = agenda_call.events.items
           /\ \/ "todo" \notin agenda_call.servers
              \/ IF agenda_call.tasks.raised
                 THEN agenda_call.agenda.tasks = <<>>
                 ELSE SameElements(agenda_call.agenda.tasks, agenda_call.tasks.items)

(***************************************************************************)
(* InvokeMethod of the service servers (SpecServices).                     *)
(***************************************************************************)
\* C31: TodoServer, WeatherServer and CalendarServer answer UNAUTHORIZED,
\* without running the handler, to an InvokeMethod request whose signature
\* fails validate_signature.
C31_ServiceChecksSignature ==
    (/\ service_call.called
     /\ ~validate_signature(service_call.client_id, service_call.method_id,
                            service_call.timestamp, service_call.signature, now))
        => service_call.status = "UNAUTHORIZED" /\ service_call.handler = ""

C37_ClosedStaysClosed == closed => ~connected

(***************************************************************************)
(* acquire_lock and release_lock (SpecLocks).                              *)
(***************************************************************************)
\* The thread's client was answered "success" and its lock has neither
\* expired nor been released
HoldsLock(t) ==
    /\ lockers[t].result = "success"
    /\ lock_clock - lockers[t].acquired <= lockers[t].ttl

\* C38: for any interleaving of concurrent acquire_lock calls on the same
\* resource_id, two clients never both hold a valid, unexpired lock_id for
\* that resource at the same time.
C38_LockMutualExclusion ==
    \A t, u \in Threads :
        (t # u /\ HoldsLock(t) /\ HoldsLock(u))
            => lockers[t].resource_id # lockers[u].resource_id

(***************************************************************************)
(* Further properties of DistributedServer.InvokeMethod (Spec) and of      *)
(* AuthProvider (SpecAuth).                                                *)
(***************************************************************************)
\* The request passes authenticate, validate_signature, the method lookup
\* and has_permission
PassesGates(req) ==
    /\ authenticate(req.client_id, req.api_key).some
    /\ validate_signature(req.client_id, req.method_id, req.timestamp, req.signature, now)
    /\ req.method_id \in DOMAIN methods
    /\ has_permission(req.client_id, methods[req.method_id].required_permission)

C33_WindowIncludesBoundary ==
    (/\ auth_call.op = "validate_signature"
     /\ CorrectSignature(auth_call.client_id, auth_call.method_id,
                         auth_call.timestamp, auth_call.signature)
     /\ Abs(auth_call.current_time - auth_call.timestamp) <= 300)
        => auth_call.result = TRUE

\* C40: the two permission views agree: whenever authenticate returns a
\* permission set S for (client_id, api_key), has_permission(client_id, p)
\* is true if and only if p is in S, for every permission p.
C40_PermissionViewsAgree ==
    (auth_call.op = "authenticate" /\ auth_call.permissions.some)
        => \A p \in Permissions :
              has_permission(auth_call.client_id, p)
                  <=> p \in Range(auth_call.permissions.val)

(***************************************************************************)
(* Further properties of the connector's breaker (SpecClient).             *)
(***************************************************************************)
\* C35: in every reachable state of a CircuitBreaker used by one caller at a
\* time, state OPEN implies failure_count >= failure_threshold and state
\* CLOSED implies failure_count < failure_threshold.
C35_StateMatchesCount ==
    /\ circuit_breaker.state = "OPEN"
          => circuit_breaker.failure_count >= FailureThreshold
    /\ circuit_breaker.state = "CLOSED"
          => circuit_breaker.failure_count < FailureThreshold

\* The breaker has opened again after a failed trial call: the count is
\* above the threshold
C35_Witness ==
    /\ circuit_breaker.state = "OPEN"
    /\ circuit_breaker.failure_count > FailureThreshold
    /\ invocation.called

\* C39: only transport failures count against the breaker: an UNAUTHORIZED,
\* NOT_FOUND or ERROR response received over a healthy transport, as the
\* answer to the one send of the call, leaves the breaker's state and
\* failure_count as they were.
C39_StatusErrorsNotCounted ==
    [][(/\ InvokeCall
        /\ invocation'.answer \in StatusErrors
        /\ invocation'.log = <<"InvokeMethod">>)
          => /\ circuit_breaker'.state = circuit_breaker.state
             /\ circuit_breaker'.failure_count = circuit_breaker.failure_count
    ]_vars

(***************************************************************************)
(* Subscriptions and their streams (SpecBroadcast).                        *)
(***************************************************************************)
\* Stream c was opened after an earlier stream with the same subscription_id
\* (the listener makes its subscription_id once, before its loop), and no
\* stream with that subscription_id was opened after it
Reopened(c) ==
    /\ \E b \in 1..(c - 1) : streams[b].subscription_id = streams[c].subscription_id
    /\ \A d \in (c + 1)..Len(streams) :
          streams[d].subscription_id # streams[c].subscription_id

\* C36: the subscription registered by a re-opened stream stays in
\* event_subscribers for as long as that stream is active; the late teardown
\* of the old stream, which has the same subscription_id, does not remove
\* it.
C36_ReopenedSubscriptionStays ==
    \A c \in DOMAIN streams :
        (Reopened(c) /\ streams[c].state = "open")
            => /\ streams[c].subscription_id \in DOMAIN event_subscribers
               /\ event_subscribers[streams[c].subscription_id].context = c

=============================================================================
